---- MODULE Spec2Model ----
(***************************************************************************)
(* A model of giteasy's issue-discovery core:                              *)
(*   - the rule-based classification of an issue (services/github.ts),     *)
(*   - the beginner-issue search with its two-stage strategy and fallback  *)
(*     (services/github.ts),                                               *)
(*   - the batched aggregation of the monitored repositories' issues       *)
(*     (components/Dashboard.tsx).                                         *)
(* Strings are TLA+ strings; String.prototype.includes and toLowerCase are *)
(* computed character by character.                                        *)
(***************************************************************************)
EXTENDS Integers, Sequences, FiniteSets, TLC

VARIABLES
    \* ---- GitHubService (services/github.ts)
    beginnerLabels,   \* the private allowlist field
    token,            \* the in-memory credential (NULL when absent)
    storage,          \* localStorage['github_token'] (NULL when absent)
    \* ---- one issue being classified
    issue,            \* [labels: Seq(STRING), title: STRING]
    category,         \* result of categorizeIssue, NONE before the call
    priority,         \* result of getPriorityFromIssue, NONE before the call
    difficulty,       \* result of getDifficultyFromIssue, NONE before the call
    \* ---- one call of searchBeginnerIssues
    call,             \* its arguments [language, label, primarySort, secondarySort]
    pc,               \* position of the call
    requests,         \* the HTTP requests issued so far, oldest first
    responses,        \* the responses received so far, oldest first
    repoResponse,     \* repoResponse.items of the two-stage strategy (<<>> before State A)
    result,           \* the items the call resolved with (<<>> while pending or rejected)
    via,              \* which code path produced result
    \* ---- Dashboard (components/Dashboard.tsx)
    userData,         \* the prop: [repositories, issueTypes]
    failing,          \* full names of the repositories whose issue fetch fails
    cycles,           \* the fetchAllIssues calls started so far
    allIssues,        \* useState allIssues
    loading,          \* useState loading
    lastRefresh,      \* useState lastRefresh, as a count of refreshes
    \* ---- the Dashboard's life and its auto-refresh effect (Dashboard.tsx 68, 158-170)
    mounted,          \* a Dashboard instance is on screen
    view,             \* the number of the Dashboard instance (counts the mounts)
    updatedUserData,  \* useState updatedUserData: [repositories, issueTypes]
    timers,           \* the ids of the intervals that are set and not cleared
    cleanup,          \* the interval id the effect's cleanup clears (0: no cleanup)
    intervals,        \* setInterval calls so far (the next id is intervals + 1)
    calls,            \* fetchAllIssues calls so far
    savedUserData,    \* localStorage['giteasy_user_data']
    \* ---- useGitHub (hooks/useGitHub.ts 4-56)
    auth,             \* per useGitHub instance: useState user, isAuthenticated, loading, error
    validations,      \* the /user requests of fetchCurrentUser in flight
    invalidated,      \* clearToken ran and setToken has not run since
    \* ---- LandingPage and its RepositorySelector (LandingPage.tsx, RepositorySelector.tsx)
    currentStep,          \* useState currentStep: "auth" or "setup"
    selectedRepositories, \* the selector's prop (formData.repositories)
    customRepoUrl,        \* useState customRepoUrl
    addingCustomRepo,     \* useState addingCustomRepo
    pendingAdds,          \* the handleCustomRepoAdd calls awaiting getRepository
    handled               \* the URLs handleCustomRepoAdd was called with, oldest first

svcVars  == <<beginnerLabels, token, storage>>
clsVars  == <<issue, category, priority, difficulty>>
srchVars == <<call, pc, requests, responses, repoResponse, result, via>>
dashVars == <<userData, failing, cycles, allIssues, loading, lastRefresh>>
viewVars == <<mounted, view, updatedUserData, timers, cleanup, intervals, calls, savedUserData>>
authVars == <<auth, validations, invalidated>>
landVars == <<currentStep, selectedRepositories, customRepoUrl, addingCustomRepo,
              pendingAdds, handled>>
vars     == <<svcVars, clsVars, srchVars, dashVars, viewVars, authVars, landVars>>

NULL == "<null>"
NONE == "<none>"

-----------------------------------------------------------------------------
(* Strings *)

\* The ASCII upper-case letters and their lower-case forms.
LowerOf ==
    ("A" :> "a") @@ ("B" :> "b") @@ ("C" :> "c") @@ ("D" :> "d") @@ ("E" :> "e") @@ ("F" :> "f") @@
    ("G" :> "g") @@ ("H" :> "h") @@ ("I" :> "i") @@ ("J" :> "j") @@ ("K" :> "k") @@ ("L" :> "l") @@
    ("M" :> "m") @@ ("N" :> "n") @@ ("O" :> "o") @@ ("P" :> "p") @@ ("Q" :> "q") @@ ("R" :> "r") @@
    ("S" :> "s") @@ ("T" :> "t") @@ ("U" :> "u") @@ ("V" :> "v") @@ ("W" :> "w") @@ ("X" :> "x") @@
    ("Y" :> "y") @@ ("Z" :> "z")

\* One character of String.prototype.toLowerCase.
lowerChar(c) == IF c \in DOMAIN LowerOf THEN LowerOf[c] ELSE c

RECURSIVE toLowerCaseOf(_)
\* String.prototype.toLowerCase, character by character.
toLowerCaseOf(s) ==
    IF Len(s) = 0 THEN ""
    ELSE lowerChar(SubSeq(s, 1, 1)) \o toLowerCaseOf(SubSeq(s, 2, Len(s)))

\* String.prototype.includes: sub occurs in s as a contiguous substring.
includesAt(s, sub) ==
    \E i \in 1..(Len(s) + 1 - Len(sub)) : SubSeq(s, i, i + Len(sub) - 1) = sub

\* The label names and titles the inputs are drawn from, and the keywords the
\* classification rules look for: the two string functions are tabulated over
\* them once, and computed afresh for any other string.
KnownTexts ==
    { "good first issue", "Bug", "starter", "easy-fix", "help wanted", "documentation",
      "feature", "performance", "critical", "important", "typo", "question",
      "Fix crash on startup", "Optimize rendering loop", "Add dark mode",
      "Update readme", "Error in build" }

KnownWords ==
    { "good first issue", "good-first-issue", "beginner", "beginner-friendly", "easy",
      "starter", "newcomer", "first-timers-only", "up-for-grabs", "help wanted",
      "documentation", "docs", "typo", "enhancement", "feature", "hacktoberfest",
      "low-hanging-fruit", "easy-fix", "junior-job", "new feature", "add ", "implement",
      "performance", "optimization", "optimize", "ui", "ux", "design", "test", "testing",
      "refactor", "cleanup", "accessibility", "a11y", "api", "database", "db", "deploy",
      "ci", "cd", "security", "vulnerability", "bug", "fix", "error", "spelling",
      "critical", "urgent", "high", "medium", "important", "advanced", "complex",
      "architecture" }

LowerTable == [s \in KnownTexts |-> toLowerCaseOf(s)]

LowerTexts == {LowerTable[s] : s \in KnownTexts}

IncludesTable == { pair \in LowerTexts \X KnownWords : includesAt(pair[1], pair[2]) }

toLowerCase(s) == IF s \in KnownTexts THEN LowerTable[s] ELSE toLowerCaseOf(s)

includes(s, sub) ==
    IF s \in LowerTexts /\ sub \in KnownWords
    THEN <<s, sub>> \in IncludesTable
    ELSE includesAt(s, sub)

\* Array.prototype.some over a sequence.
some(seq, P(_)) == \E i \in 1..Len(seq) : P(seq[i])

\* Array.prototype.map over a sequence.
map(seq, F(_)) == [i \in 1..Len(seq) |-> F(seq[i])]

-----------------------------------------------------------------------------
(* Classification engine: services/github.ts 502-614 *)

\* The beginner-signal allowlist (the initial value of the private field).
BeginnerLabelList ==
    << "good first issue", "good-first-issue", "beginner", "beginner-friendly",
       "easy", "starter", "newcomer", "first-timers-only", "up-for-grabs",
       "help wanted", "documentation", "docs", "typo", "enhancement", "feature",
       "hacktoberfest", "low-hanging-fruit", "easy-fix", "junior-job" >>

\* issue.labels.map(l => l.name.toLowerCase())
lowerLabels(iss) == map(iss.labels, toLowerCase)

\* labels.some(l => this.beginnerLabels.some(bl => l.includes(bl)))
hasBeginnerLabel(labels, allow) ==
    some(labels, LAMBDA l : some(allow, LAMBDA bl : includes(l, bl)))

anyLabel(labels, words) ==
    some(labels, LAMBDA l : \E w \in words : includes(l, w))

anyTitle(title, words) == \E w \in words : includes(title, w)

\* Mutant: every label rule is tried before any title keyword.
categorizeIssueLabelsFirst(iss, allow) ==
    LET title  == toLowerCase(iss.title)
        labels == lowerLabels(iss)
    IN  IF anyLabel(labels, {"good first issue", "good-first-issue"}) THEN "good-first-issue"
        ELSE IF anyLabel(labels, {"documentation", "docs"}) THEN "documentation"
        ELSE IF anyLabel(labels, {"beginner", "easy"}) THEN "beginner-friendly"
        ELSE IF anyLabel(labels, {"help wanted", "up-for-grabs"}) THEN "help-wanted"
        ELSE IF anyLabel(labels, {"feature", "new feature"}) THEN "feature"
        ELSE IF anyLabel(labels, {"performance", "optimization"}) THEN "performance"
        ELSE IF anyLabel(labels, {"ui", "ux", "design"}) THEN "ui-ux"
        ELSE IF anyLabel(labels, {"test", "testing"}) THEN "testing"
        ELSE IF anyLabel(labels, {"refactor", "cleanup"}) THEN "refactoring"
        ELSE IF anyLabel(labels, {"accessibility", "a11y"}) THEN "accessibility"
        ELSE IF anyLabel(labels, {"api"}) THEN "api"
        ELSE IF anyLabel(labels, {"database", "db"}) THEN "database"
        ELSE IF anyLabel(labels, {"deploy", "ci", "cd"}) THEN "deployment"
        ELSE IF anyLabel(labels, {"security", "vulnerability"}) THEN "security"
        ELSE IF anyLabel(labels, {"bug", "fix"}) THEN "bug"
        ELSE IF anyLabel(labels, {"enhancement"}) THEN "enhancement"
        ELSE IF anyLabel(labels, {"typo", "spelling"}) THEN "typo"
        ELSE IF anyTitle(title, {"add ", "implement"}) THEN "feature"
        ELSE IF anyTitle(title, {"optimize", "performance"}) THEN "performance"
        ELSE IF anyTitle(title, {"ui", "design"}) THEN "ui-ux"
        ELSE IF anyTitle(title, {"test"}) THEN "testing"
        ELSE IF anyTitle(title, {"refactor", "cleanup"}) THEN "refactoring"
        ELSE IF anyTitle(title, {"accessibility"}) THEN "accessibility"
        ELSE IF anyTitle(title, {"api"}) THEN "api"
        ELSE IF anyTitle(title, {"database"}) THEN "database"
        ELSE IF anyTitle(title, {"deploy"}) THEN "deployment"
        ELSE IF anyTitle(title, {"bug", "error"}) THEN "bug"
        ELSE IF anyTitle(title, {"feature"}) THEN "enhancement"
        ELSE "other"

\* Mutant: the final `return 'other'` is missing, so an unmatched issue yields undefined.
categorizeIssueNoDefault(iss, allow) ==
    LET title  == toLowerCase(iss.title)
        labels == lowerLabels(iss)
    IN  IF anyLabel(labels, {"good first issue", "good-first-issue"}) THEN "good-first-issue"
        ELSE IF anyLabel(labels, {"bug", "fix"}) \/ anyTitle(title, {"bug", "error"}) THEN "bug"
        ELSE "undefined"

categorizeIssue(iss, allow) ==
    LET title  == toLowerCase(iss.title)
        labels == lowerLabels(iss)
        beginnerBranch ==
            IF ~hasBeginnerLabel(labels, allow) THEN NONE
            ELSE IF anyLabel(labels, {"good first issue", "good-first-issue"}) THEN "good-first-issue"
            ELSE IF anyLabel(labels, {"documentation", "docs"}) THEN "documentation"
            ELSE IF anyLabel(labels, {"beginner", "easy"}) THEN "beginner-friendly"
            ELSE IF anyLabel(labels, {"help wanted", "up-for-grabs"}) THEN "help-wanted"
            ELSE NONE
    IN  IF beginnerBranch # NONE THEN beginnerBranch
        ELSE IF anyLabel(labels, {"feature", "new feature"}) \/ anyTitle(title, {"add ", "implement"})
        THEN "feature"
        ELSE IF anyLabel(labels, {"performance", "optimization"}) \/ anyTitle(title, {"optimize", "performance"})
        THEN "performance"
        ELSE IF anyLabel(labels, {"ui", "ux", "design"}) \/ anyTitle(title, {"ui", "design"})
        THEN "ui-ux"
        ELSE IF anyLabel(labels, {"test", "testing"}) \/ anyTitle(title, {"test"})
        THEN "testing"
        ELSE IF anyLabel(labels, {"refactor", "cleanup"}) \/ anyTitle(title, {"refactor", "cleanup"})
        THEN "refactoring"
        ELSE IF anyLabel(labels, {"accessibility", "a11y"}) \/ anyTitle(title, {"accessibility"})
        THEN "accessibility"
        ELSE IF anyLabel(labels, {"api"}) \/ anyTitle(title, {"api"})
        THEN "api"
        ELSE IF anyLabel(labels, {"database", "db"}) \/ anyTitle(title, {"database"})
        THEN "database"
        ELSE IF anyLabel(labels, {"deploy", "ci", "cd"}) \/ anyTitle(title, {"deploy"})
        THEN "deployment"
        ELSE IF anyLabel(labels, {"security", "vulnerability"})
        THEN "security"
        ELSE IF anyLabel(labels, {"bug", "fix"}) \/ anyTitle(title, {"bug", "error"})
        THEN "bug"
        ELSE IF anyLabel(labels, {"feature", "enhancement"}) \/ anyTitle(title, {"feature"})
        THEN "enhancement"
        ELSE IF anyLabel(labels, {"typo", "spelling"})
        THEN "typo"
        ELSE "other"

\* Mutant: the beginner-label check is skipped.
getPriorityFromIssueNoBeginner(iss, allow) ==
    LET labels == lowerLabels(iss)
    IN  IF anyLabel(labels, {"critical", "urgent", "high"}) THEN "high"
        ELSE IF anyLabel(labels, {"medium", "important"}) THEN "medium"
        ELSE "low"

getPriorityFromIssue(iss, allow) ==
    LET labels == lowerLabels(iss)
    IN  IF hasBeginnerLabel(labels, allow) THEN "low"
        ELSE IF anyLabel(labels, {"critical", "urgent", "high"}) THEN "high"
        ELSE IF anyLabel(labels, {"medium", "important"}) THEN "medium"
        ELSE "low"

\* Mutant: the advanced indicators are tested before the beginner ones.
getDifficultyFromIssueAdvancedFirst(iss) ==
    LET labels == lowerLabels(iss)
        title  == toLowerCase(iss.title)
    IN  IF anyLabel(labels, {"advanced", "complex", "architecture", "performance", "security"})
           \/ anyTitle(title, {"refactor", "optimize"})
        THEN "advanced"
        ELSE IF anyLabel(labels, {"good first issue", "beginner", "easy", "starter",
                                  "first-timers-only", "documentation", "typo"})
        THEN "beginner"
        ELSE "intermediate"

getDifficultyFromIssue(iss) ==
    LET labels == lowerLabels(iss)
        title  == toLowerCase(iss.title)
    IN  IF anyLabel(labels, {"good first issue", "beginner", "easy", "starter",
                             "first-timers-only", "documentation", "typo"})
        THEN "beginner"
        ELSE IF anyLabel(labels, {"advanced", "complex", "architecture", "performance", "security"})
                \/ anyTitle(title, {"refactor", "optimize"})
        THEN "advanced"
        ELSE "intermediate"

Tokens == {"ghp_a"}

-----------------------------------------------------------------------------
(* Inputs of the classification engine *)

MaxLabels == 2

LabelNames ==
    { "good first issue", "Bug", "starter", "easy-fix", "help wanted",
      "documentation", "feature", "performance", "critical", "important",
      "typo", "question" }

Titles ==
    { "Fix crash on startup", "Optimize rendering loop", "Add dark mode",
      "Update readme", "Error in build" }

LabelLists == UNION { [1..n -> LabelNames] : n \in 0..MaxLabels }

Issues == [labels : LabelLists, title : Titles]

\* Idle values of the variables a specification does not use.
IdleSearch ==
    /\ call = [language |-> "", label |-> "", primarySort |-> "updated", secondarySort |-> NONE]
    /\ pc = "idle" /\ requests = <<>> /\ responses = <<>>
    /\ repoResponse = <<>> /\ result = <<>> /\ via = NONE

IdleDashboard ==
    /\ userData = [repositories |-> <<>>, issueTypes |-> {}]
    /\ failing = {} /\ cycles = <<>> /\ allIssues = <<>>
    /\ loading = FALSE /\ lastRefresh = 0

IdleClassify ==
    /\ issue = [labels |-> <<>>, title |-> ""]
    /\ category = NONE /\ priority = NONE /\ difficulty = NONE

\* One Dashboard instance on screen whose repository list is the prop's; the
\* auto-refresh effect is not followed.
IdleView ==
    /\ mounted = TRUE /\ view = 1 /\ updatedUserData = userData
    /\ timers = {} /\ cleanup = 0 /\ intervals = 0 /\ calls = 0
    /\ savedUserData = userData

\* The instances of useGitHub on the landing page: LandingPage's own and the
\* one of its GitHubAuth form (LandingPage.tsx 23, 386).
Hooks == {"landing", "form"}

\* The state of an instance whose mount effect has run (useGitHub.ts 5-17).
mountedHook(validating) ==
    [user |-> NULL, isAuthenticated |-> FALSE, loading |-> validating, error |-> NULL]

IdleAuth ==
    /\ auth = [h \in Hooks |-> mountedHook(FALSE)]
    /\ validations = {} /\ invalidated = FALSE

\* The landing page at its 'auth' step with nothing selected or typed.
IdleLanding ==
    /\ currentStep = "auth"
    /\ selectedRepositories = <<>> /\ customRepoUrl = "" /\ addingCustomRepo = FALSE
    /\ pendingAdds = <<>> /\ handled = <<>>

InitService ==
    /\ beginnerLabels = BeginnerLabelList
    /\ token = NULL
    /\ storage \in {NULL} \cup Tokens

InitClassify ==
    /\ InitService
    /\ issue \in Issues
    /\ category = NONE /\ priority = NONE /\ difficulty = NONE
    /\ IdleSearch /\ IdleDashboard /\ IdleView /\ IdleAuth /\ IdleLanding

\* githubService.categorizeIssue(issue)
CategorizeIssue ==
    /\ category = NONE
    /\ category' = categorizeIssue(issue, beginnerLabels)
    /\ UNCHANGED <<svcVars, issue, priority, difficulty, srchVars, dashVars, viewVars, authVars, landVars>>

\* githubService.getPriorityFromIssue(issue)
GetPriorityFromIssue ==
    /\ priority = NONE
    /\ priority' = getPriorityFromIssue(issue, beginnerLabels)
    /\ UNCHANGED <<svcVars, issue, category, difficulty, srchVars, dashVars, viewVars, authVars, landVars>>

\* githubService.getDifficultyFromIssue(issue)
GetDifficultyFromIssue ==
    /\ difficulty = NONE
    /\ difficulty' = getDifficultyFromIssue(issue)
    /\ UNCHANGED <<svcVars, issue, category, priority, srchVars, dashVars, viewVars, authVars, landVars>>

NextClassify ==
    \/ CategorizeIssue
    \/ GetPriorityFromIssue
    \/ GetDifficultyFromIssue

SpecClassify == InitClassify /\ [][NextClassify]_vars

-----------------------------------------------------------------------------
(* Retrieval client: services/github.ts 138-173 *)

\* getToken(): the cached credential, read from the external store when the
\* cache is empty.
getToken == IF token = NULL THEN storage ELSE token

\* The request makeRequest sends: the Authorization header is attached when
\* getToken() is truthy.
httpRequest(path, q, sort, perPage) ==
    [path |-> path, q |-> q, sort |-> sort, order |-> "desc", per_page |-> perPage,
     auth |-> getToken]

\* What the platform can answer: a failure (non-success status or network
\* error: makeRequest throws), a success whose body holds no items list, or a
\* success with an items list.
isOk(resp) == resp.kind = "ok"

-----------------------------------------------------------------------------
(* Credential and session: services/github.ts 133-177, hooks/useGitHub.ts 4-56 *)

MaxAuthRequests == 3    \* most requests sent in one behaviour

\* The bodies of a failure response: for a 401 a JSON object with a message,
\* with an empty message or without a message (NONE); for a 500 a JSON object
\* without a message, the JSON value null, or a body that is not JSON.
ErrorBodies(status) ==
    IF status = 401
    THEN { [kind |-> "object", message |-> "Bad credentials", login |-> NONE],
           [kind |-> "object", message |-> "", login |-> NONE],
           [kind |-> "object", message |-> NONE, login |-> NONE] }
    ELSE { [kind |-> "object", message |-> NONE, login |-> NONE],
           [kind |-> "null", message |-> NONE, login |-> NONE],
           [kind |-> "text", message |-> NONE, login |-> NONE] }

\* What the platform can answer to GET /user.
UserResponses ==
    { [ok |-> TRUE, status |-> 200,
       body |-> [kind |-> "object", message |-> NONE, login |-> "octocat"]] }
        \cup UNION { { [ok |-> FALSE, status |-> st, body |-> b] : b \in ErrorBodies(st) } :
                     st \in {401, 500} }

\* Mutant: a body that is not JSON is treated like one without a message.
parsedErrorNoMessage(body) ==
    IF body.kind = "text" THEN [kind |-> "object", message |-> NONE, login |-> NONE] ELSE body

\* await response.json().catch(() => ({ message: 'Unknown error' })) (168)
parsedError(body) ==
    IF body.kind = "text"
    THEN [kind |-> "object", message |-> "Unknown error", login |-> NONE]
    ELSE body

\* How makeRequest settles for a response (167-172): it returns the parsed
\* body of a success and throws for every other response; reading .message of
\* the JSON value null is a TypeError, whose message the engine words.
makeRequest(resp) ==
    IF resp.ok
    THEN [threw |-> FALSE, name |-> NONE, message |-> NONE, value |-> resp.body]
    ELSE LET error == parsedError(resp.body)
         IN  IF error.kind = "null"
             THEN [threw |-> TRUE, name |-> "TypeError", message |-> "<engine>", value |-> NONE]
             ELSE [threw |-> TRUE, name |-> "Error",
                   message |-> IF error.message \notin {NONE, ""}
                               THEN error.message
                               ELSE "HTTP " \o ToString(resp.status),
                   value |-> NONE]

\* Mutant: the stored entry survives.
removeItemKeeps(stored) == stored

\* localStorage.removeItem('github_token') (147): the entry is absent.
removeItem(stored) == NULL

\* clearToken() (145-148)
clearToken ==
    /\ token' = NULL
    /\ storage' = removeItem(storage)
    /\ invalidated' = TRUE

\* The request makeRequest sends with credential tok (150-165).
request(path, tok) == [path |-> path, auth |-> tok]

\* The credentials a user may submit.
SubmittedTokens == {"ghp_a", "ghp_b"}

\* fetchCurrentUser of instance h up to its request (19-22), sent with
\* credential tok; submit tells that handleTokenSubmit awaits it.
fetchCurrentUser(h, tok, submit) ==
    /\ requests' = Append(requests, request("/user", tok))
    /\ validations' = validations
            \cup {[request |-> Len(requests) + 1, hook |-> h, submit |-> submit]}
    /\ auth' = [auth EXCEPT ![h].loading = TRUE]

\* login(token) of instance h (35-38): setToken (133-136), then
\* fetchCurrentUser.
login(h, t, submit) ==
    /\ token' = t
    /\ storage' = t
    /\ invalidated' = FALSE
    /\ fetchCurrentUser(h, t, submit)

\* The landing page with its form shown, once the mount effects of both
\* instances have run (useGitHub.ts 10-17): with a stored credential each has
\* its /user validation in flight.
InitAuth ==
    /\ beginnerLabels = BeginnerLabelList
    /\ storage \in {NULL} \cup Tokens
    /\ token = storage
    /\ call = [language |-> "", label |-> "", primarySort |-> "updated", secondarySort |-> NONE]
    /\ pc = "idle" /\ responses = <<>> /\ repoResponse = <<>> /\ result = <<>> /\ via = NONE
    /\ requests = IF storage = NULL THEN <<>>
                  ELSE <<request("/user", storage), request("/user", storage)>>
    /\ validations = IF storage = NULL THEN {}
                     ELSE { [request |-> 1, hook |-> "landing", submit |-> FALSE],
                            [request |-> 2, hook |-> "form", submit |-> FALSE] }
    /\ auth = [h \in Hooks |-> mountedHook(storage # NULL)]
    /\ invalidated = FALSE
    /\ IdleClassify /\ IdleDashboard /\ IdleView /\ IdleLanding

\* handleTokenSubmit (LandingPage.tsx 388-398) up to its await: the form is
\* on screen (258) with its button enabled (468), and login is called with
\* the trimmed token.
HandleTokenSubmit ==
    /\ currentStep = "auth" /\ ~auth["landing"].isAuthenticated
    /\ ~auth["form"].loading
    /\ Len(requests) < MaxAuthRequests
    /\ \E t \in SubmittedTokens : login("form", t, TRUE)
    /\ UNCHANGED <<beginnerLabels, call, pc, responses, repoResponse, result, via,
                   clsVars, dashVars, viewVars, landVars>>

\* A /user request settles (22-32): on a failure the instance keeps the
\* error's message and the credential is cleared; an instance that is no
\* longer mounted takes no state. Either way login resolves, and a
\* handleTokenSubmit that awaited it calls onAuthenticated, which sets the
\* step to 'setup' (LandingPage.tsx 53-55, 392-393).
UserResponds ==
    \E v \in validations :
        /\ validations' = validations \ {v}
        /\ currentStep' = IF v.submit THEN "setup" ELSE currentStep
        /\ \E resp \in UserResponses :
            /\ responses' = Append(responses, resp)
            /\ IF makeRequest(resp).threw
               THEN /\ auth' = IF v.hook \in Hooks
                               THEN [auth EXCEPT ![v.hook].error = makeRequest(resp).message,
                                                 ![v.hook].isAuthenticated = FALSE,
                                                 ![v.hook].loading = FALSE]
                               ELSE auth
                    /\ clearToken
               ELSE /\ auth' = IF v.hook \in Hooks
                               THEN [auth EXCEPT ![v.hook] =
                                        [user |-> makeRequest(resp).value.login,
                                         isAuthenticated |-> TRUE,
                                         loading |-> FALSE, error |-> NULL]]
                               ELSE auth
                    /\ UNCHANGED <<token, storage, invalidated>>
        /\ UNCHANGED <<beginnerLabels, call, pc, requests, repoResponse, result, via,
                       clsVars, dashVars, viewVars, selectedRepositories, customRepoUrl,
                       addingCustomRepo, pendingAdds, handled>>

\* The Dashboard's handleLogout (Dashboard.tsx 247-250): logout() (40-45)
\* clears the credential, then App's handleLogout removes the stored entry
\* once more and shows a new landing page (App.tsx 48-54), whose instances
\* find no credential to validate; the requests of the instances before it
\* stay in flight.
Logout ==
    /\ clearToken
    /\ auth' = [h \in Hooks |-> mountedHook(FALSE)]
    /\ currentStep' = "auth"
    /\ validations' = {[v EXCEPT !.hook = "unmounted", !.submit = FALSE] : v \in validations}
    /\ UNCHANGED <<beginnerLabels, srchVars, clsVars, dashVars, viewVars, selectedRepositories,
                   customRepoUrl, addingCustomRepo, pendingAdds, handled>>

\* Any other call of the service sends its request through makeRequest
\* (150-165), which caches the stored credential on its way.
SendRequest ==
    /\ Len(requests) < MaxAuthRequests
    /\ requests' = Append(requests, request("/search/issues", getToken))
    /\ token' = getToken
    /\ UNCHANGED <<beginnerLabels, storage, call, pc, responses, repoResponse, result, via,
                   clsVars, dashVars, viewVars, authVars, landVars>>

NextAuth ==
    \/ HandleTokenSubmit
    \/ UserResponds
    \/ Logout
    \/ SendRequest

SpecAuth == InitAuth /\ [][NextAuth]_vars

-----------------------------------------------------------------------------
(* Sorting: Array.prototype.sort (stable) under a comparator *)

\* The permutation a stable sort yields: element i comes before element j when
\* the comparator puts it first, or leaves them equal and i was first.
sortPositions(seq, cmp(_, _)) ==
    [i \in 1..Len(seq) |->
        1 + Cardinality({j \in 1..Len(seq) :
                \/ cmp(seq[j], seq[i]) < 0
                \/ (cmp(seq[j], seq[i]) = 0 /\ j < i)})]

sort(seq, cmp(_, _)) ==
    LET pos == sortPositions(seq, cmp)
    IN  [p \in 1..Len(seq) |-> seq[CHOOSE i \in 1..Len(seq) : pos[i] = p]]

\* Array.prototype.slice(0, n)
slice0(seq, n) == SubSeq(seq, 1, IF Len(seq) < n THEN Len(seq) ELSE n)

\* Array.prototype.slice(-n)
sliceLast(seq, n) == SubSeq(seq, IF Len(seq) > n THEN Len(seq) - n + 1 ELSE 1, Len(seq))

RECURSIVE join(_, _)
\* Array.prototype.join
join(seq, sep) ==
    IF Len(seq) = 0 THEN ""
    ELSE IF Len(seq) = 1 THEN seq[1]
    ELSE seq[1] \o sep \o join(Tail(seq), sep)

RECURSIVE split(_, _)
\* String.prototype.split on a one-character separator
split(s, sep) ==
    IF \E i \in 1..Len(s) : SubSeq(s, i, i) = sep
    THEN LET i == CHOOSE k \in 1..Len(s) :
                    /\ SubSeq(s, k, k) = sep
                    /\ \A j \in 1..(k - 1) : SubSeq(s, j, j) # sep
         IN  <<SubSeq(s, 1, i - 1)>> \o split(SubSeq(s, i + 1, Len(s)), sep)
    ELSE <<s>>

-----------------------------------------------------------------------------
(* Beginner-issue search: services/github.ts 237-407 *)

PerPageIssues     == 100   \* per_page of the single-stage issue search
MaxReturnedIssues == 50    \* the single-stage result is trimmed to this length
PerPageCandidates == 20    \* per_page of State A
TopRepos          == 10    \* repositories embedded in State B's query
PerPageScoped     == 50    \* per_page of State B
PerPageText(n) ==
    IF n = 100 THEN "100" ELSE IF n = 50 THEN "50" ELSE IF n = 30 THEN "30" ELSE IF n = 20 THEN "20"
    ELSE "?"

\* The label clause shared by both strategies.
labelClause(label) ==
    IF label # "" THEN " label:\"" \o label \o "\"" ELSE " label:\"good first issue\""

\* Mutant: the default label clause is added to a given label's clause.
singleStageQueryBothLabels(language, label) ==
    "is:issue is:open"
        \o (IF label # "" THEN " label:\"" \o label \o "\"" ELSE "")
        \o " label:\"good first issue\""
        \o (IF language # "" THEN " language:" \o language ELSE "")
        \o " comments:>=1 comments:<=10"

\* The query string of the single-stage search (248-262).
singleStageQuery(language, label) ==
    "is:issue is:open"
        \o labelClause(label)
        \o (IF language # "" THEN " language:" \o language ELSE "")
        \o " comments:>=1 comments:<=10"

\* The request of the single-stage search (265-272).
singleStageRequest(c) ==
    httpRequest("/search/issues", singleStageQuery(c.language, c.label),
                IF c.primarySort = "stars" THEN "reactions" ELSE c.primarySort,
                PerPageText(PerPageIssues))

sortKey(iss, key) ==
    IF key = "stars" THEN iss.reactions
    ELSE IF key = "updated" THEN iss.updated_at
    ELSE iss.created_at

\* Mutant: the comparator stops at the primary key.
compareIssuesPrimaryOnly(a, b, primarySort, secondarySort) ==
    sortKey(b, primarySort) - sortKey(a, primarySort)

\* The comparator of the single-stage search (275-306).
compareIssues(a, b, primarySort, secondarySort) ==
    LET comparison == sortKey(b, primarySort) - sortKey(a, primarySort)
    IN  IF comparison = 0 /\ secondarySort # NONE /\ secondarySort # primarySort
        THEN sortKey(b, secondarySort) - sortKey(a, secondarySort)
        ELSE comparison

\* What the single-stage search returns for the items of a response (275-313).
singleStageResult(items, c) ==
    slice0(sort(items, LAMBDA a, b : compareIssues(a, b, c.primarySort, c.secondarySort)),
           MaxReturnedIssues)

\* The candidate-repository query of State A (322-335).
candidateRequest(c) ==
    httpRequest("/search/repositories",
                "topic:good-first-issue OR topic:beginner-friendly OR topic:hacktoberfest"
                    \o (IF c.language # "" THEN " language:" \o c.language ELSE "")
                    \o " stars:>500",
                "stars", PerPageText(PerPageCandidates))

\* Mutant: every candidate is embedded.
scopedRequestAllRepos(c, repos) ==
    LET repoNames  == [i \in 1..Len(repos) |-> repos[i].full_name]
        repoFilter == join([i \in 1..Len(repoNames) |-> "repo:" \o repoNames[i]], " OR ")
    IN  httpRequest("/search/issues",
                    "is:issue is:open" \o labelClause(c.label)
                        \o " (" \o repoFilter \o ")"
                        \o " comments:>=1 comments:<=15",
                    "updated", PerPageText(PerPageScoped))

\* The scoped issue query of State B (341-363).
scopedRequest(c, repos) ==
    LET repoNames  == slice0([i \in 1..Len(repos) |-> repos[i].full_name], TopRepos)
        repoFilter == join([i \in 1..Len(repoNames) |-> "repo:" \o repoNames[i]], " OR ")
    IN  httpRequest("/search/issues",
                    "is:issue is:open" \o labelClause(c.label)
                        \o " (" \o repoFilter \o ")"
                        \o " comments:>=1 comments:<=15",
                    "updated", PerPageText(PerPageScoped))

\* Time is counted in whole days; Now is the day of the call.
Now == 200

\* Math.log10 of the star counts the model uses, in thousandths.
log10(n) ==
    IF n = 1 THEN 0 ELSE IF n = 2 THEN 301 ELSE IF n = 10 THEN 1000
    ELSE IF n = 100 THEN 2000 ELSE IF n = 500 THEN 2699 ELSE IF n = 1000 THEN 3000
    ELSE IF n = 10000 THEN 4000 ELSE 5000

\* Mutant: the star count is not raised to 1, so that log10(0) is -Infinity.
calculateHybridScoreNoFloor(iss, repoStars) ==
    LET daysSinceUpdate == Now - iss.updated_at
        recencyScore    == IF 100 - daysSinceUpdate > 0 THEN 100 - daysSinceUpdate ELSE 0
        popularityScore == IF repoStars = 0 THEN -1000000 ELSE log10(repoStars) * 10
    IN  recencyScore * 6000 + popularityScore * 4

\* calculateHybridScore (394-407), in ten-thousandths:
\* 0.6 * recency + 0.4 * popularity.
calculateHybridScore(iss, repoStars) ==
    LET daysSinceUpdate == Now - iss.updated_at
        recencyScore    == IF 100 - daysSinceUpdate > 0 THEN 100 - daysSinceUpdate ELSE 0
        popularityScore == log10(IF repoStars > 1 THEN repoStars ELSE 1) * 10
    IN  recencyScore * 6000 + popularityScore * 4

\* issue.repository_url.split('/').slice(-2).join('/')
repoFullName(iss) == join(sliceLast(split(iss.repository_url, "/"), 2), "/")

\* Mutant: no issue is joined to a repository.
repositoryStarsUnjoined(iss, repos) == 0

\* The star count attached to an issue (368-375).
repositoryStars(iss, repos) ==
    IF \E i \in 1..Len(repos) : repos[i].full_name = repoFullName(iss)
    THEN LET i == CHOOSE k \in 1..Len(repos) :
                    /\ repos[k].full_name = repoFullName(iss)
                    /\ \A j \in 1..(k - 1) : repos[j].full_name # repoFullName(iss)
         IN  repos[i].stargazers_count
    ELSE 0

\* The post-processing of the two-stage strategy (368-384).
hybridResult(items, repos) ==
    LET enhancedIssues ==
            [i \in 1..Len(items) |->
                [id |-> items[i].id, updated_at |-> items[i].updated_at,
                 created_at |-> items[i].created_at, reactions |-> items[i].reactions,
                 repository_url |-> items[i].repository_url,
                 repository_stars |-> repositoryStars(items[i], repos)]]
    IN  sort(enhancedIssues,
             LAMBDA a, b : calculateHybridScore(b, b.repository_stars)
                           - calculateHybridScore(a, a.repository_stars))

\* Mutant: the catch block passes 'stars' as the secondary sort.
fallbackCallSecondaryStars(c) ==
    [language |-> c.language, label |-> c.label,
     primarySort |-> "updated", secondarySort |-> "stars"]

\* Mutant: the catch block repeats the caller's sort keys.
fallbackCallSameSort(c) == c

\* The call the catch block of the two-stage strategy makes (386-390).
fallbackCall(c) ==
    [language |-> c.language, label |-> c.label,
     primarySort |-> "updated", secondarySort |-> NONE]

\* Mutant: any secondary sort 'stars' selects the two-stage strategy.
isHybridAnyPrimary(c) == c.secondarySort = "stars"

\* primarySort === 'updated' && secondarySort === 'stars' (244)
isHybrid(c) == c.primarySort = "updated" /\ c.secondarySort = "stars"

\* ---- inputs

MaxItems == 2       \* longest items list of an issue search response
MaxRepoItems == 2   \* longest items list of a repository search response
MaxRequests == 4    \* requests one call may send in the model

PlatformRepos ==
    { [full_name |-> "facebook/react", stargazers_count |-> 100000],
      [full_name |-> "golang/go", stargazers_count |-> 1000] }

PlatformIssues ==
    { [id |-> 1, updated_at |-> 199, created_at |-> 150, reactions |-> 3,
       repository_url |-> "https://api.github.com/repos/facebook/react"],
      [id |-> 2, updated_at |-> 199, created_at |-> 190, reactions |-> 0,
       repository_url |-> "https://api.github.com/repos/golang/go"],
      [id |-> 3, updated_at |-> 60, created_at |-> 20, reactions |-> 3,
       repository_url |-> ""],
      [id |-> 4, updated_at |-> 180, created_at |-> 100, reactions |-> 1,
       repository_url |-> "https://api.github.com/repos/golang"] }

\* A full page of candidates: n repositories in descending order of stars.
CandidatePage(n) ==
    [i \in 1..n |-> [full_name |-> "org/r" \o ToString(10 + i), stargazers_count |-> 10000]]

\* The lengths of the long State A responses: the cut, one more, a full page.
CandidatePageSizes == {TopRepos, TopRepos + 1, PerPageCandidates}

RepoResponses ==
    {[kind |-> "error", items |-> <<>>], [kind |-> "noitems", items |-> <<>>]}
        \cup { [kind |-> "ok", items |-> l] :
                 l \in UNION { [1..n -> PlatformRepos] : n \in 0..MaxRepoItems } }
        \cup { [kind |-> "ok", items |-> CandidatePage(n)] : n \in CandidatePageSizes }

IssueResponses ==
    {[kind |-> "error", items |-> <<>>], [kind |-> "noitems", items |-> <<>>]}
        \cup { [kind |-> "ok", items |-> l] :
                 l \in UNION { [1..n -> PlatformIssues] : n \in 0..MaxItems } }

Calls ==
    [language : {"", "Go"}, label : {"", "help wanted", "good first issue"},
     primarySort : {"updated", "stars", "created"},
     secondarySort : {NONE, "updated", "stars", "created"}]

InitSearch ==
    /\ InitService
    /\ IdleClassify /\ IdleSearch /\ IdleDashboard /\ IdleView /\ IdleAuth /\ IdleLanding

\* makeRequest caches the stored credential on its way (151, 138-143).
sendRequest(req) ==
    /\ requests' = Append(requests, req)
    /\ token' = getToken
    /\ UNCHANGED <<beginnerLabels, storage>>

\* searchBeginnerIssues is called (237-272): the two-stage strategy sends its
\* State A request, every other sort combination the single-stage request.
SearchBeginnerIssues ==
    /\ pc = "idle"
    /\ \E c \in Calls :
        /\ call' = c
        /\ IF isHybrid(c)
           THEN pc' = "stateA" /\ sendRequest(candidateRequest(c))
           ELSE pc' = "single" /\ sendRequest(singleStageRequest(c))
    /\ UNCHANGED <<responses, repoResponse, result, via, clsVars, dashVars, viewVars, authVars, landVars>>

\* The catch block (386-390): the single-stage search is called afresh.
startFallback ==
    /\ call' = fallbackCall(call)
    /\ IF isHybrid(fallbackCall(call))
       THEN pc' = "stateA" /\ sendRequest(candidateRequest(fallbackCall(call)))
       ELSE pc' = "fallback" /\ sendRequest(singleStageRequest(fallbackCall(call)))
    /\ UNCHANGED <<result, via>>

\* The State A request settles (338-365).
StateAResponds ==
    /\ pc = "stateA"
    /\ Len(requests) < MaxRequests
    /\ \E resp \in RepoResponses :
        /\ responses' = Append(responses, resp)
        /\ IF isOk(resp)
           THEN /\ repoResponse' = resp.items
                /\ pc' = "stateB"
                /\ sendRequest(scopedRequest(call, resp.items))
                /\ UNCHANGED <<call, result, via>>
           ELSE /\ startFallback
                /\ UNCHANGED repoResponse
    /\ UNCHANGED <<clsVars, dashVars, viewVars, authVars, landVars>>

\* The State B request settles (365-390).
StateBResponds ==
    /\ pc = "stateB"
    /\ Len(requests) < MaxRequests
    /\ \E resp \in IssueResponses :
        /\ responses' = Append(responses, resp)
        /\ IF isOk(resp)
           THEN /\ result' = hybridResult(resp.items, repoResponse)
                /\ via' = "hybrid"
                /\ pc' = "done"
                /\ UNCHANGED <<call, requests, svcVars>>
           ELSE startFallback
    /\ UNCHANGED <<repoResponse, clsVars, dashVars, viewVars, authVars, landVars>>

\* The single-stage request settles (272-313); a failure, or a body without
\* an items list, rejects the call.
SingleStageResponds ==
    /\ pc \in {"single", "fallback"}
    /\ \E resp \in IssueResponses :
        /\ responses' = Append(responses, resp)
        /\ IF isOk(resp)
           THEN /\ result' = singleStageResult(resp.items, call)
                /\ via' = "single"
                /\ pc' = "done"
           ELSE /\ pc' = "failed"
                /\ UNCHANGED <<result, via>>
    /\ UNCHANGED <<call, requests, repoResponse, svcVars, clsVars, dashVars, viewVars, authVars, landVars>>

NextSearch ==
    \/ SearchBeginnerIssues
    \/ StateAResponds
    \/ StateBResponds
    \/ SingleStageResponds

SpecSearch == InitSearch /\ [][NextSearch]_vars

\* A request that is in flight settles in the end: it resolves or fails.
RequestSettles == StateAResponds \/ StateBResponds \/ SingleStageResponds

SpecSearchFair == SpecSearch /\ WF_vars(RequestSettles)

-----------------------------------------------------------------------------
(* The hybrid score as a function: services/github.ts 394-407 *)

\* Days of last update: long ago, around the 100-day cut, recent, today and
\* (a clock ahead of ours) tomorrow.
UpdatedDays == {20, 99, 100, 101, 150, 199, 200, 201}

StarCounts == {0, 1, 2, 10, 500, 1000, 100000}

\* Two issues and the star counts of their repositories.
ScoreInputs ==
    [a : [updated_at : UpdatedDays], aStars : StarCounts,
     b : [updated_at : UpdatedDays], bStars : StarCounts]

InitScore ==
    /\ InitService
    /\ call \in ScoreInputs
    /\ pc = "idle" /\ requests = <<>> /\ responses = <<>>
    /\ repoResponse = <<>> /\ result = <<>> /\ via = NONE
    /\ IdleClassify /\ IdleDashboard /\ IdleView /\ IdleAuth /\ IdleLanding

\* Both issues are scored at the same instant.
CalculateHybridScore ==
    /\ pc = "idle"
    /\ result' = << calculateHybridScore(call.a, call.aStars),
                    calculateHybridScore(call.b, call.bStars) >>
    /\ pc' = "scored"
    /\ UNCHANGED <<call, requests, responses, repoResponse, via, svcVars, clsVars, dashVars,
                   viewVars, authVars, landVars>>

NextScore == CalculateHybridScore

SpecScore == InitScore /\ [][NextScore]_vars

-----------------------------------------------------------------------------
(* Repository search: services/github.ts 203-234, 430-469 *)

PerPageRepoSearch == 50     \* per_page of searchRepositories
PerPageBeginnerRepos == 30  \* per_page of searchBeginnerRepos

\* The key a repository is compared on.
repoSortKey(repo, key) ==
    IF key = "stars" THEN repo.stargazers_count
    ELSE IF key = "updated" THEN repo.updated_at
    ELSE repo.forks_count

\* The comparator of the secondary sort (220-229, 455-464).
compareRepos(a, b, secondarySort) ==
    repoSortKey(b, secondarySort) - repoSortKey(a, secondarySort)

\* What both searches return for the items of a response (217-233, 453-468).
repoSearchResult(items, primarySort, secondarySort) ==
    IF secondarySort # NONE /\ secondarySort # primarySort
    THEN sort(items, LAMBDA a, b : compareRepos(a, b, secondarySort))
    ELSE items

\* The query of searchBeginnerRepos (435-441).
beginnerReposQuery(language) ==
    "topic:good-first-issue OR topic:beginner-friendly OR topic:hacktoberfest"
        \o (IF language # "" THEN " language:" \o language ELSE "")
        \o " stars:>100"

\* ---- inputs

FoundRepos ==
    { [full_name |-> "facebook/react", stargazers_count |-> 100000, updated_at |-> 150,
       forks_count |-> 40],
      [full_name |-> "golang/go", stargazers_count |-> 1000, updated_at |-> 190,
       forks_count |-> 40],
      [full_name |-> "jestjs/jest", stargazers_count |-> 1000, updated_at |-> 120,
       forks_count |-> 7] }

\* The platform answers in descending order of the key it was asked to sort by.
RepoSearchResponses(key) ==
    {[kind |-> "error", items |-> <<>>]}
        \cup { [kind |-> "ok", items |-> l] :
                 l \in { m \in UNION { [1..n -> FoundRepos] : n \in 0..MaxRepoItems } :
                            \A i, j \in 1..Len(m) : i < j =>
                                /\ m[i] # m[j]
                                /\ repoSortKey(m[i], key) >= repoSortKey(m[j], key) } }

RepoCalls ==
    [fn : {"searchRepositories"}, text : {"react", "go test"},
     primarySort : {"stars", "updated", "forks"},
     secondarySort : {NONE, "stars", "updated", "forks"}]
        \cup [fn : {"searchBeginnerRepos"}, text : {"", "Go"},
              primarySort : {"stars", "updated", "forks"},
              secondarySort : {NONE, "stars", "updated", "forks"}]

\* The request of either search (208-213, 443-448).
repoSearchRequest(c) ==
    IF c.fn = "searchRepositories"
    THEN httpRequest("/search/repositories", c.text, c.primarySort,
                     PerPageText(PerPageRepoSearch))
    ELSE httpRequest("/search/repositories", beginnerReposQuery(c.text), c.primarySort,
                     PerPageText(PerPageBeginnerRepos))

InitRepoSearch ==
    /\ InitService
    /\ IdleClassify /\ IdleSearch /\ IdleDashboard /\ IdleView /\ IdleAuth /\ IdleLanding

\* searchRepositories or searchBeginnerRepos is called and sends its request.
SearchRepos ==
    /\ pc = "idle"
    /\ \E c \in RepoCalls :
        /\ call' = c
        /\ sendRequest(repoSearchRequest(c))
    /\ pc' = "repos"
    /\ UNCHANGED <<responses, repoResponse, result, via, clsVars, dashVars, viewVars, authVars, landVars>>

\* The request settles (215-233, 450-468): a failure rejects the call.
RepoSearchResponds ==
    /\ pc = "repos"
    /\ \E resp \in RepoSearchResponses(call.primarySort) :
        /\ responses' = Append(responses, resp)
        /\ IF isOk(resp)
           THEN /\ result' = repoSearchResult(resp.items, call.primarySort, call.secondarySort)
                /\ via' = call.fn
                /\ pc' = "done"
           ELSE /\ pc' = "failed"
                /\ UNCHANGED <<result, via>>
    /\ UNCHANGED <<call, requests, repoResponse, svcVars, clsVars, dashVars, viewVars, authVars, landVars>>

NextRepoSearch ==
    \/ SearchRepos
    \/ RepoSearchResponds

SpecRepoSearch == InitRepoSearch /\ [][NextRepoSearch]_vars

-----------------------------------------------------------------------------
(* Aggregation of the monitored repositories: components/Dashboard.tsx 93-156 *)

batchSize == 3          \* const batchSize = 3
IssuesPerRepo == 20     \* githubIssues.slice(0, 20)

MaxRepos == 5           \* most repositories monitored
MaxCycles == 1          \* most fetchAllIssues calls started in one behaviour

RepoFullNames ==
    << "facebook/react", "golang/go", "vuejs/vue", "nodejs/node", "rails/rails",
       "django/django", "babel/babel", "jestjs/jest" >>

\* The k-th monitored repository.
Repository(k) ==
    [id |-> k, name |-> split(RepoFullNames[k], "/")[2], full_name |-> RepoFullNames[k]]

\* The open issues the platform holds for a repository, most recently updated
\* first. The fifth repository holds more issues than one fetch keeps.
PlatformRepoIssues(fullName) ==
    LET k == CHOOSE j \in 1..Len(RepoFullNames) : RepoFullNames[j] = fullName
    IN  IF k = 5
        THEN [i \in 1..(IssuesPerRepo + 2) |->
                [id |-> 100 * k + i, labels |-> <<"documentation">>, title |-> "Update readme"]]
        ELSE IF k % 3 = 1
        THEN << [id |-> 100 * k + 1, labels |-> <<"good first issue", "Bug">>,
                 title |-> "Fix crash on startup"],
                [id |-> 100 * k + 2, labels |-> <<"Bug">>, title |-> "Update readme"] >>
        ELSE IF k % 3 = 2
        THEN << [id |-> 100 * k + 1, labels |-> <<"documentation">>,
                 title |-> "Update readme"] >>
        ELSE << [id |-> 100 * k + 1, labels |-> <<>>, title |-> "Add dark mode"],
                [id |-> 100 * k + 2, labels |-> <<"question">>, title |-> "Update readme"],
                [id |-> 100 * k + 3, labels |-> <<"starter">>, title |-> "Error in build"] >>

WantedChoices ==
    { {"good-first-issue", "documentation", "feature"}, {"bug", "other", "ui-ux"} }

\* The mapping of one fetched issue (118-133).
toIssue(iss, repo, allow) ==
    [id |-> iss.id,
     type |-> categorizeIssue([labels |-> iss.labels, title |-> iss.title], allow),
     priority |-> getPriorityFromIssue([labels |-> iss.labels, title |-> iss.title], allow),
     difficulty |-> getDifficultyFromIssue([labels |-> iss.labels, title |-> iss.title]),
     repository |-> repo.name,
     repositoryFullName |-> repo.full_name]

\* Mutant: the per-repository try/catch is missing, so a failed fetch rejects.
batchPromiseNoCatch(repo, fails, allow) ==
    IF fails
    THEN [rejected |-> TRUE, value |-> <<>>]
    ELSE LET githubIssues == slice0(PlatformRepoIssues(repo.full_name), IssuesPerRepo)
         IN  [rejected |-> FALSE,
              value |-> [i \in 1..Len(githubIssues) |-> toIssue(githubIssues[i], repo, allow)]]

\* Mutant: every fetched issue is kept.
fetchedIssuesUncapped(repo, allow) ==
    LET githubIssues == PlatformRepoIssues(repo.full_name)
    IN  [i \in 1..Len(githubIssues) |-> toIssue(githubIssues[i], repo, allow)]

\* The value of a successful fetch of a repository (116-133): the first 20
\* issues, mapped.
fetchedIssues(repo, allow) ==
    LET githubIssues == slice0(PlatformRepoIssues(repo.full_name), IssuesPerRepo)
    IN  [i \in 1..Len(githubIssues) |-> toIssue(githubIssues[i], repo, allow)]

\* The monitored repositories and the values of their fetches under the
\* initial allowlist, tabulated once.
RepositoryTable == [k \in 1..Len(RepoFullNames) |-> Repository(k)]

FetchedTable == [k \in 1..Len(RepoFullNames) |-> fetchedIssues(RepositoryTable[k], BeginnerLabelList)]

\* How one promise of a batch settles (113-138): a failed fetch is caught and
\* yields [], a successful one the first 20 issues, mapped.
batchPromise(repo, fails, allow) ==
    IF fails
    THEN [rejected |-> FALSE, value |-> <<>>]
    ELSE IF allow = BeginnerLabelList /\ repo.id \in DOMAIN RepositoryTable
                /\ RepositoryTable[repo.id] = repo
         THEN [rejected |-> FALSE, value |-> FetchedTable[repo.id]]
         ELSE [rejected |-> FALSE, value |-> fetchedIssues(repo, allow)]

\* The indices of the batch that starts at index i (105-108).
batchOf(i, n) == {j \in i..(i + batchSize - 1) : j <= n}

\* Mutant: the loop goes on as soon as one promise of the batch has settled.
batchSettledAny(issued, settled) == TRUE

\* Promise.all(batchPromises) (140): every promise of the batch has settled.
batchSettled(issued, settled) == issued \subseteq settled

RECURSIVE flat(_)
\* Array.prototype.flat
flat(seqs) == IF Len(seqs) = 0 THEN <<>> ELSE Head(seqs) \o flat(Tail(seqs))

\* Mutant: the results of a batch are joined last repository first.
pushBatchLastFirst(allIssuesData, batchResults, i, size) ==
    allIssuesData \o flat([q \in 1..size |-> batchResults[i + size - q]])

\* allIssuesData.push(...batchResults.flat()) (140-141): Promise.all yields
\* the values in the order of the batch, whatever the order of settling.
pushBatch(allIssuesData, batchResults, i, size) ==
    allIssuesData \o flat([q \in 1..size |-> batchResults[i + q - 1]])

\* Array.prototype.filter
filter(seq, keep(_)) ==
    LET idx == {i \in 1..Len(seq) : keep(seq[i])}
        nth(p) == CHOOSE i \in idx : Cardinality({j \in idx : j < i}) = p - 1
    IN  [p \in 1..Cardinality(idx) |-> seq[nth(p)]]

\* Mutant: the fetched issues are stored unfiltered.
filteredIssuesAll(allIssuesData, issueTypes) == allIssuesData

\* The filter on the user's issue types (145-147).
filteredIssues(allIssuesData, issueTypes) ==
    filter(allIssuesData, LAMBDA x : x.type \in issueTypes)

\* The request of getRepositoryIssues(owner, repo) (193-201, 150-165).
repositoryIssuesRequest(fullName) ==
    [path |-> "/repos/" \o split(fullName, "/")[1] \o "/" \o split(fullName, "/")[2] \o "/issues",
     state |-> "open", sort |-> "updated", per_page |-> "100", auth |-> getToken]

\* The requests of the batch that starts at index i, in the order of batch.map.
batchRequests(repos, i) ==
    [q \in 1..Cardinality(batchOf(i, Len(repos))) |->
        repositoryIssuesRequest(repos[i + q - 1].full_name)]

\* Mutant: a state setter acts on whichever Dashboard instance is on screen.
setStateAnyView(v) == TRUE

\* A state setter of Dashboard instance v takes effect: React drops the
\* update of an instance that is no longer mounted.
setState(v) == mounted /\ v = view

InitDashboard ==
    /\ InitService
    /\ IdleClassify /\ IdleSearch
    /\ \E n \in 0..MaxRepos :
        /\ \E wanted \in WantedChoices :
            userData = [repositories |-> [k \in 1..n |-> Repository(k)], issueTypes |-> wanted]
        /\ failing \in SUBSET {RepoFullNames[k] : k \in 1..n}
    /\ cycles = <<>>
    /\ allIssues = <<>>
    /\ loading = FALSE
    /\ lastRefresh = 0
    /\ IdleView /\ IdleAuth /\ IdleLanding

\* A call of fetchAllIssues by Dashboard instance v, up to its first
\* suspension (93-116): with repositories, the fetches of the first batch go
\* out. The callback closes over the userData prop (94, 105, 156). manual
\* tells a call awaited by refreshData (227) from the effect's and the timer's.
fetchAllIssues(v, manual) ==
    LET repositories == userData.repositories
    IN  IF Len(repositories) = 0
        THEN /\ loading' = FALSE
             /\ UNCHANGED <<cycles, token, requests>>
        ELSE /\ loading' = TRUE
             /\ cycles' = Append(cycles,
                     [view |-> v,
                      manual |-> manual,
                      repositories |-> repositories,
                      issueTypes |-> userData.issueTypes,
                      i |-> 1,
                      issued |-> batchOf(1, Len(repositories)),
                      settled |-> {},
                      batchResults |-> [j \in batchOf(1, Len(repositories)) |-> <<>>],
                      allIssuesData |-> <<>>,
                      status |-> "running"])
             /\ token' = getToken
             /\ requests' = requests \o batchRequests(repositories, 1)

\* fetchAllIssues is called (93-116) on the instance on screen.
FetchAllIssues ==
    /\ Len(cycles) < MaxCycles
    /\ fetchAllIssues(view, FALSE)
    /\ UNCHANGED <<beginnerLabels, storage, userData, failing, allIssues, lastRefresh,
                   clsVars, call, pc, responses, repoResponse, result, via,
                   viewVars, authVars, landVars>>

\* One issue fetch of a running call settles (116-141); when it completes the
\* batch, the batch is joined and the next batch goes out, or, after the last
\* batch, the result is filtered and stored (145-155).
FetchSettles ==
    \E c \in 1..Len(cycles) :
      \E j \in cycles[c].issued \ cycles[c].settled :
        \E p \in {batchPromise(cycles[c].repositories[j],
                               cycles[c].repositories[j].full_name \in failing,
                               beginnerLabels)} :
          LET cy      == cycles[c]
              n       == Len(cy.repositories)
              settled == cy.settled \cup {j}
              results == [cy.batchResults EXCEPT ![j] = p.value]
              batch   == batchOf(cy.i, n)
              next    == cy.i + batchSize
          IN  /\ cy.status = "running"
              /\ IF p.rejected
                 THEN \* Promise.all rejects: the outer catch logs, finally clears loading
                      /\ cycles' = [cycles EXCEPT ![c] =
                                      [cy EXCEPT !.settled = settled, !.status = "caught"]]
                      /\ loading' = IF setState(cy.view) THEN FALSE ELSE loading
                      /\ UNCHANGED <<allIssues, lastRefresh, token, requests>>
                 ELSE IF ~batchSettled(batch, settled)
                 THEN /\ cycles' = [cycles EXCEPT ![c] =
                                      [cy EXCEPT !.settled = settled, !.batchResults = results]]
                      /\ UNCHANGED <<allIssues, lastRefresh, loading, token, requests>>
                 ELSE \E joined \in {pushBatch(cy.allIssuesData, results, cy.i,
                                                 Cardinality(batch))} :
                      IF next <= n
                      THEN /\ cycles' = [cycles EXCEPT ![c] =
                                  [cy EXCEPT !.settled = settled,
                                             !.i = next,
                                             !.issued = cy.issued \cup batchOf(next, n),
                                             !.batchResults = [q \in batchOf(next, n) |-> <<>>],
                                             !.allIssuesData = joined]]
                           /\ token' = getToken
                           /\ requests' = requests \o batchRequests(cy.repositories, next)
                           /\ UNCHANGED <<allIssues, lastRefresh, loading>>
                      ELSE /\ cycles' = [cycles EXCEPT ![c] =
                                  [cy EXCEPT !.settled = settled,
                                             !.batchResults = results,
                                             !.allIssuesData = joined,
                                             !.status = "done"]]
                           /\ IF setState(cy.view)
                              THEN /\ allIssues' = filteredIssues(joined, cy.issueTypes)
                                   /\ lastRefresh' = lastRefresh + 1
                                   /\ loading' = FALSE
                              ELSE UNCHANGED <<allIssues, lastRefresh, loading>>
                           /\ UNCHANGED <<token, requests>>
              /\ UNCHANGED <<beginnerLabels, storage, userData, failing, clsVars,
                             call, pc, responses, repoResponse, result, via,
                             viewVars, authVars, landVars>>

NextDashboard ==
    \/ FetchAllIssues
    \/ FetchSettles

SpecDashboard == InitDashboard /\ [][NextDashboard]_vars

-----------------------------------------------------------------------------
(* The Dashboard's life and its auto-refresh effect: components/Dashboard.tsx
   68, 158-170, 225-241; App.tsx 36-46, 68-82 *)

\* The lengths of the prop's repository list.
ViewRepoCounts == {0, 1, 2}
MaxCalls == 2           \* most fetchAllIssues calls in one behaviour
MaxViews == 2           \* most Dashboard instances in one behaviour

\* The repository the selector offers beside the monitored ones.
SelectableRepos == {Repository(Len(RepoFullNames))}

\* clearInterval(interval) (168): the interval with that id is no longer set.
clearInterval(ts, id) == {t \in ts : t.id # id}

\* updatedUserData.repositories && updatedUserData.repositories.length > 0 (160)
effectStarts(repositories) == Len(repositories) > 0

\* A run of the effect (159-169) of instance v over the repository list of
\* the state being committed, after the cleanup of its previous run: with
\* repositories it calls fetchAllIssues and sets the interval whose id its
\* cleanup keeps; without, it does nothing and returns no cleanup.
effect(repositories, v, loadingBefore) ==
    IF effectStarts(repositories)
    THEN /\ calls < MaxCalls
         /\ fetchAllIssues(v, FALSE)
         /\ calls' = calls + 1
         /\ intervals' = intervals + 1
         /\ timers' = clearInterval(timers, cleanup) \cup {[id |-> intervals + 1, view |-> v]}
         /\ cleanup' = intervals + 1
    ELSE /\ timers' = clearInterval(timers, cleanup)
         /\ cleanup' = 0
         /\ loading' = loadingBefore
         /\ UNCHANGED <<intervals, calls, cycles, token, requests>>

InitView ==
    /\ InitService
    /\ IdleClassify /\ IdleSearch /\ IdleAuth /\ IdleLanding
    /\ \E n \in ViewRepoCounts :
        userData = [repositories |-> [k \in 1..n |-> Repository(k)],
                    issueTypes |-> {"good-first-issue", "documentation", "feature"}]
    /\ failing = {}
    /\ cycles = <<>> /\ allIssues = <<>> /\ loading = FALSE /\ lastRefresh = 0
    /\ mounted = FALSE /\ view = 0 /\ updatedUserData = userData
    /\ timers = {} /\ cleanup = 0 /\ intervals = 0 /\ calls = 0
    /\ savedUserData = userData

\* App shows the Dashboard (App.tsx 36-41, 77-81): a new instance starts from
\* its initial state (51-53, 68) and its effect runs (158-170).
Mount ==
    /\ ~mounted
    /\ view < MaxViews
    /\ mounted' = TRUE
    /\ view' = view + 1
    /\ updatedUserData' = userData
    /\ allIssues' = <<>>
    /\ lastRefresh' = 0
    /\ effect(userData.repositories, view + 1, FALSE)
    /\ UNCHANGED <<beginnerLabels, storage, userData, failing, savedUserData, clsVars,
                   call, pc, responses, repoResponse, result, via, authVars, landVars>>

\* The interval's callback runs (164-166).
Tick ==
    /\ calls < MaxCalls
    /\ \E t \in timers : fetchAllIssues(t.view, FALSE)
    /\ calls' = calls + 1
    /\ UNCHANGED <<beginnerLabels, storage, userData, failing, allIssues, lastRefresh,
                   mounted, view, updatedUserData, timers, cleanup, intervals, savedUserData,
                   clsVars, call, pc, responses, repoResponse, result, via, authVars, landVars>>

\* The refreshing flag (66, 225-229) of instance v: set from a press of the
\* Refresh button until the fetchAllIssues call it awaits has ended.
refreshing(v) ==
    \E c \in 1..Len(cycles) :
        cycles[c].view = v /\ cycles[c].manual /\ cycles[c].status = "running"

\* refreshData (225-229), up to the suspension of its fetchAllIssues call; the
\* Refresh button is disabled while refreshing (295-296).
RefreshData ==
    /\ mounted
    /\ ~refreshing(view)
    /\ calls < MaxCalls
    /\ fetchAllIssues(view, TRUE)
    /\ calls' = calls + 1
    /\ UNCHANGED <<beginnerLabels, storage, userData, failing, allIssues, lastRefresh,
                   mounted, view, updatedUserData, timers, cleanup, intervals, savedUserData,
                   clsVars, call, pc, responses, repoResponse, result, via, authVars, landVars>>

\* handleRepositoriesChange(repositories) (231-236) and the commit it causes:
\* the state and the store take the new list, the effect's cleanup runs and
\* the effect runs again (158-170).
handleRepositoriesChange(repositories) ==
    /\ updatedUserData' = [updatedUserData EXCEPT !.repositories = repositories]
    /\ savedUserData' = [updatedUserData EXCEPT !.repositories = repositories]
    /\ effect(repositories, view, loading)
    /\ UNCHANGED <<beginnerLabels, storage, userData, failing, allIssues, lastRefresh,
                   mounted, view, clsVars, call, pc, responses, repoResponse, result, via,
                   authVars, landVars>>

\* The selector toggles a repository (RepositorySelector.tsx 57-64, Dashboard.tsx 684-686).
HandleRepositoriesChange ==
    /\ mounted
    /\ \E repo \in SelectableRepos \cup {updatedUserData.repositories[k] :
                                              k \in 1..Len(updatedUserData.repositories)} :
        IF \E k \in 1..Len(updatedUserData.repositories) :
                updatedUserData.repositories[k].id = repo.id
        THEN handleRepositoriesChange(
                SelectSeq(updatedUserData.repositories, LAMBDA r : r.id # repo.id))
        ELSE handleRepositoriesChange(Append(updatedUserData.repositories, repo))

\* handleRemoveRepository(repoId) (238-241) for a repository on the list.
HandleRemoveRepository ==
    /\ mounted
    /\ \E k \in 1..Len(updatedUserData.repositories) :
        handleRepositoriesChange(
            SelectSeq(updatedUserData.repositories,
                      LAMBDA r : r.id # updatedUserData.repositories[k].id))

\* handleBackToLanding (App.tsx 43-46): the Dashboard is dismissed and the
\* cleanup of its effect runs (168).
Unmount ==
    /\ mounted
    /\ mounted' = FALSE
    /\ timers' = clearInterval(timers, cleanup)
    /\ cleanup' = 0
    /\ UNCHANGED <<svcVars, clsVars, srchVars, dashVars, view, updatedUserData, intervals,
                   calls, savedUserData, authVars, landVars>>

NextView ==
    \/ Mount
    \/ Tick
    \/ RefreshData
    \/ HandleRepositoriesChange
    \/ HandleRemoveRepository
    \/ Unmount
    \/ FetchSettles

SpecView == InitView /\ [][NextView]_vars

\* A Dashboard over two batches of repositories that is shown, refreshed and
\* dismissed, with no change of its repository list.
InitDismiss ==
    /\ InitService
    /\ IdleClassify /\ IdleSearch /\ IdleAuth /\ IdleLanding
    /\ userData = [repositories |-> [k \in 1..(batchSize + 1) |-> Repository(k)],
                    issueTypes |-> {"good-first-issue", "documentation", "feature"}]
    /\ failing = {}
    /\ cycles = <<>> /\ allIssues = <<>> /\ loading = FALSE /\ lastRefresh = 0
    /\ mounted = FALSE /\ view = 0 /\ updatedUserData = userData
    /\ timers = {} /\ cleanup = 0 /\ intervals = 0 /\ calls = 0
    /\ savedUserData = userData

NextDismiss ==
    \/ Mount
    \/ Tick
    \/ RefreshData
    \/ Unmount
    \/ FetchSettles

\* A fetch that is in flight settles in the end: it resolves or rejects.
SpecDismiss == InitDismiss /\ [][NextDismiss]_vars /\ WF_vars(FetchSettles)

-----------------------------------------------------------------------------
(* Adding a repository by URL: components/RepositorySelector.tsx 57-96,
   services/github.ts 189-191, 494-500 *)

MaxAdds == 2    \* most handleCustomRepoAdd calls in one behaviour

RECURSIVE trim(_)
\* String.prototype.trim, for blanks
trim(s) ==
    IF Len(s) = 0 THEN s
    ELSE IF SubSeq(s, 1, 1) = " " THEN trim(SubSeq(s, 2, Len(s)))
    ELSE IF SubSeq(s, Len(s), Len(s)) = " " THEN trim(SubSeq(s, 1, Len(s) - 1))
    ELSE s

\* The regular expression /github\.com\/([^\/]+)\/([^\/]+)/ matches at place i.
matchesAt(url, i) ==
    /\ i + 10 <= Len(url)
    /\ SubSeq(url, i, i + 10) = "github.com/"
    /\ LET groups == split(SubSeq(url, i + 11, Len(url)), "/")
       IN  Len(groups) >= 2 /\ groups[1] # "" /\ groups[2] # ""

\* Mutant: the owner alone makes a match.
parseRepositoryUrlOwnerOnly(url) ==
    IF \E i \in 1..Len(url) :
            i + 10 <= Len(url) /\ SubSeq(url, i, i + 10) = "github.com/" /\ i + 10 < Len(url)
    THEN LET i == CHOOSE k \in 1..Len(url) :
                    k + 10 < Len(url) /\ SubSeq(url, k, k + 10) = "github.com/"
             groups == split(SubSeq(url, i + 11, Len(url)), "/") \o <<"">>
         IN  [matched |-> TRUE, owner |-> groups[1], repo |-> groups[2]]
    ELSE [matched |-> FALSE, owner |-> NONE, repo |-> NONE]

\* parseRepositoryUrl (github.ts 494-500); matched FALSE stands for null.
parseRepositoryUrl(url) ==
    IF \E i \in 1..Len(url) : matchesAt(url, i)
    THEN LET i == CHOOSE k \in 1..Len(url) :
                    matchesAt(url, k) /\ \A j \in 1..(k - 1) : ~matchesAt(url, j)
             groups == split(SubSeq(url, i + 11, Len(url)), "/")
         IN  [matched |-> TRUE, owner |-> groups[1], repo |-> groups[2]]
    ELSE [matched |-> FALSE, owner |-> NONE, repo |-> NONE]

\* ---- inputs

\* What a user may type into the URL field.
CustomUrls ==
    { "", " ", "facebook/react", "https://github.com/facebook",
      "https://github.com/facebook/", "https://gitlab.com/facebook/react",
      "https://github.com/facebook/react", "https://github.com/jestjs/jest/issues/1" }

\* The repositories offered in the selector's lists.
ListedRepos == {Repository(1), Repository(2)}

InitSelector ==
    /\ InitService
    /\ IdleClassify /\ IdleSearch /\ IdleDashboard /\ IdleView /\ IdleAuth
    /\ currentStep = "setup"
    /\ selectedRepositories \in {<<>>, <<Repository(1)>>}
    /\ customRepoUrl = "" /\ addingCustomRepo = FALSE
    /\ pendingAdds = <<>> /\ handled = <<>>

\* onRepositoriesChange of the landing page's form (LandingPage.tsx 293-294).
onRepositoriesChange(repositories) == selectedRepositories' = repositories

\* The URL field changes (RepositorySelector.tsx 352-353).
SetCustomRepoUrl ==
    /\ \E url \in CustomUrls \ {customRepoUrl} : customRepoUrl' = url
    /\ UNCHANGED <<svcVars, clsVars, srchVars, dashVars, viewVars, authVars, currentStep,
                   selectedRepositories, addingCustomRepo, pendingAdds, handled>>

\* handleRepositoryToggle (57-64)
HandleRepositoryToggle ==
    /\ \E repo \in ListedRepos :
        IF \E i \in 1..Len(selectedRepositories) : selectedRepositories[i].id = repo.id
        THEN onRepositoriesChange(filter(selectedRepositories, LAMBDA r : r.id # repo.id))
        ELSE onRepositoriesChange(Append(selectedRepositories, repo))
    /\ UNCHANGED <<svcVars, clsVars, srchVars, dashVars, viewVars, authVars, currentStep,
                   customRepoUrl, addingCustomRepo, pendingAdds, handled>>

\* handleCustomRepoAdd up to its await (66-74), called by the Add button,
\* which is enabled for a non-blank URL while no add is running (358-359): a
\* URL that does not parse returns at once; otherwise the adding flag is set
\* and getRepository sends its request.
HandleCustomRepoAdd ==
    /\ trim(customRepoUrl) # "" /\ ~addingCustomRepo
    /\ Len(handled) < MaxAdds
    /\ handled' = Append(handled, customRepoUrl)
    /\ LET parsed == parseRepositoryUrl(customRepoUrl)
       IN  IF ~parsed.matched
           THEN UNCHANGED <<addingCustomRepo, pendingAdds, requests, token>>
           ELSE /\ addingCustomRepo' = TRUE
                /\ pendingAdds' = Append(pendingAdds,
                        [selectedRepositories |-> selectedRepositories,
                         full_name |-> parsed.owner \o "/" \o parsed.repo])
                /\ requests' = Append(requests,
                        request("/repos/" \o parsed.owner \o "/" \o parsed.repo, getToken))
                /\ token' = getToken
    /\ UNCHANGED <<beginnerLabels, storage, call, pc, responses, repoResponse, result, via,
                   clsVars, dashVars, viewVars, authVars, currentStep, selectedRepositories,
                   customRepoUrl>>

\* getRepository settles (74-95): a repository not yet among those selected
\* when the button was pressed is appended to them and the field is emptied;
\* a failure is logged; either way the adding flag is cleared.
GetRepositoryResponds ==
    /\ pendingAdds # <<>>
    /\ pendingAdds' = Tail(pendingAdds)
    /\ addingCustomRepo' = FALSE
    /\ LET add == Head(pendingAdds)
           known == {k \in 1..Len(RepoFullNames) : RepoFullNames[k] = add.full_name}
       IN  \/ \E k \in known :
                /\ IF \E i \in 1..Len(add.selectedRepositories) :
                            add.selectedRepositories[i].id = RepositoryTable[k].id
                   THEN UNCHANGED selectedRepositories
                   ELSE onRepositoriesChange(Append(add.selectedRepositories,
                                                    RepositoryTable[k]))
                /\ customRepoUrl' = ""
           \/ UNCHANGED <<selectedRepositories, customRepoUrl>>
    /\ UNCHANGED <<svcVars, clsVars, srchVars, dashVars, viewVars, authVars, currentStep,
                   handled>>

NextSelector ==
    \/ SetCustomRepoUrl
    \/ HandleRepositoryToggle
    \/ HandleCustomRepoAdd
    \/ GetRepositoryResponds

SpecSelector == InitSelector /\ [][NextSelector]_vars

-----------------------------------------------------------------------------
(* Properties of the classification engine *)

BeginnerCategories ==
    {"good-first-issue", "documentation", "beginner-friendly", "help-wanted"}

HeuristicCategories ==
    {"feature", "performance", "ui-ux", "testing", "refactoring", "accessibility",
     "api", "database", "deployment", "security", "bug", "enhancement", "typo"}

Categories == BeginnerCategories \cup HeuristicCategories \cup {"other"}

\* Some label contains an entry of the beginner allowlist.
beginnerSignal(iss) == hasBeginnerLabel(lowerLabels(iss), BeginnerLabelList)

\* Some label contains 'bug' or 'fix'.
bugSignal(iss) == anyLabel(lowerLabels(iss), {"bug", "fix"})

\* C1 (as claimed): an issue with a beginner-signal label and a bug-signal
\* label is categorized into one of the four beginner categories, never 'bug'.
C1_BeginnerBeatsBug ==
    (category # NONE /\ beginnerSignal(issue) /\ bugSignal(issue))
        => (category \in BeginnerCategories /\ category # "bug")

\* C2 (as claimed): every issue with a beginner-signal label gets one of the
\* four beginner categories; the later heuristics and 'other' are reached only
\* without a beginner-signal label.
C2_BeginnerSignalDecides ==
    (category # NONE /\ category \notin BeginnerCategories) => ~beginnerSignal(issue)

\* The heuristic stage as an ordered rule table: category, label words, title words.
RuleCategories ==
    << "feature", "performance", "ui-ux", "testing", "refactoring", "accessibility",
       "api", "database", "deployment", "security", "bug", "enhancement", "typo" >>

RuleLabelWords ==
    << {"feature", "new feature"}, {"performance", "optimization"}, {"ui", "ux", "design"},
       {"test", "testing"}, {"refactor", "cleanup"}, {"accessibility", "a11y"}, {"api"},
       {"database", "db"}, {"deploy", "ci", "cd"}, {"security", "vulnerability"},
       {"bug", "fix"}, {"feature", "enhancement"}, {"typo", "spelling"} >>

RuleTitleWords ==
    << {"add ", "implement"}, {"optimize", "performance"}, {"ui", "design"}, {"test"},
       {"refactor", "cleanup"}, {"accessibility"}, {"api"}, {"database"}, {"deploy"},
       {}, {"bug", "error"}, {"feature"}, {} >>

Rules == 1..Len(RuleCategories)

labelRule(k, iss) == anyLabel(lowerLabels(iss), RuleLabelWords[k])
titleRule(k, iss) == anyTitle(toLowerCase(iss.title), RuleTitleWords[k])

\* C3 (as claimed): without a beginner-signal label, when some label matches a
\* label rule the category is one decided by a matching label rule, whatever
\* the title is.
C3_LabelOutranksTitle ==
    (category # NONE /\ ~beginnerSignal(issue) /\ \E k \in Rules : labelRule(k, issue))
        => \E k \in Rules : labelRule(k, issue) /\ category = RuleCategories[k]

\* C3 (amended): without a beginner-signal label the category is that of the
\* first rule, in the fixed rule order, that matches by a label or by the
\* title ('other' when none does); a label outranks the title only when no
\* earlier rule matches the title.
C3_FirstRuleWins ==
    (category # NONE /\ ~beginnerSignal(issue))
        => LET hit == {k \in Rules : labelRule(k, issue) \/ titleRule(k, issue)}
           IN  IF hit = {} THEN category = "other"
               ELSE category = RuleCategories[CHOOSE k \in hit : \A j \in hit : k <= j]

\* A title keyword of an earlier rule decided the category although a label
\* matches a later rule.
C3_Witness ==
    /\ issue.labels = <<"Bug">> /\ issue.title = "Add dark mode"
    /\ category = "feature"

\* C4: priority is 'low' with a beginner-signal label; otherwise 'high' for a
\* label containing critical/urgent/high; otherwise 'medium' for one containing
\* medium/important; otherwise 'low'. The title plays no part.
C4_Priority ==
    priority # NONE =>
        LET labels == lowerLabels(issue)
        IN  priority =
              IF beginnerSignal(issue) THEN "low"
              ELSE IF anyLabel(labels, {"critical", "urgent", "high"}) THEN "high"
              ELSE IF anyLabel(labels, {"medium", "important"}) THEN "medium"
              ELSE "low"

\* A beginner-signal label together with a critical label gave 'low'.
C4_Witness ==
    /\ priority = "low"
    /\ beginnerSignal(issue)
    /\ anyLabel(lowerLabels(issue), {"critical"})

\* C5: difficulty is 'beginner' with an explicit beginner indicator among the
\* labels, even beside advanced evidence; otherwise 'advanced' for an advanced
\* label or 'refactor'/'optimize' in the title; otherwise 'intermediate'.
\* Labels ['performance'] with title 'Optimize rendering loop' give difficulty
\* 'advanced' and category 'performance'.
C5_Difficulty ==
    LET labels == lowerLabels(issue)
        title  == toLowerCase(issue.title)
        beginnerInd == anyLabel(labels, {"good first issue", "beginner", "easy", "starter",
                                         "first-timers-only", "documentation", "typo"})
        advancedInd == \/ anyLabel(labels, {"advanced", "complex", "architecture",
                                            "performance", "security"})
                       \/ anyTitle(title, {"refactor", "optimize"})
    IN  /\ difficulty # NONE =>
            difficulty = IF beginnerInd THEN "beginner"
                         ELSE IF advancedInd THEN "advanced"
                         ELSE "intermediate"
        /\ (issue.labels = <<"performance">> /\ issue.title = "Optimize rendering loop") =>
            /\ difficulty \in {NONE, "advanced"}
            /\ category \in {NONE, "performance"}

\* The scenario of the claim, with both functions applied.
C5_Witness ==
    /\ issue.labels = <<"performance">> /\ issue.title = "Optimize rendering loop"
    /\ difficulty = "advanced" /\ category = "performance"

\* C6: each of the three functions returns a value of its closed result set
\* for every issue, and a call changes neither the issue, nor the allowlist,
\* nor the credential state.
C6_TotalAndPure ==
    /\ [](/\ category \in Categories \cup {NONE}
          /\ priority \in {"low", "medium", "high", NONE}
          /\ difficulty \in {"beginner", "intermediate", "advanced", NONE})
    /\ [][UNCHANGED <<issue, beginnerLabels, token, storage>>]_clsVars

\* All three functions were applied to an issue with no labels.
C6_Witness ==
    /\ issue.labels = <<>>
    /\ category \in Categories
    /\ priority \in {"low", "medium", "high"}
    /\ difficulty \in {"beginner", "intermediate", "advanced"}

-----------------------------------------------------------------------------
(* Properties of the beginner-issue search *)

\* The call went into the two-stage strategy: its first request is State A's.
twoStageStarted == Len(requests) >= 1 /\ requests[1].path = "/search/repositories"

\* The single-stage call with primary sort 'updated' and no secondary sort,
\* for the language and label of the current call.
updatedCall ==
    [language |-> call.language, label |-> call.label,
     primarySort |-> "updated", secondarySort |-> NONE]

\* C8 (as claimed): when State A succeeds with zero items, the call resolves
\* with the result of the single-stage search sorted by 'updated': the last
\* request is that search's request and the result is computed from its answer.
C8_EmptyCandidatesGiveSingleStage ==
    (/\ pc = "done" /\ twoStageStarted
     /\ isOk(responses[1]) /\ responses[1].items = <<>>)
        => /\ via = "single"
           /\ requests[Len(requests)] = singleStageRequest(updatedCall)
           /\ result = singleStageResult(responses[Len(responses)].items, updatedCall)

\* C9: when the State A request or the State B request fails (failure status,
\* network error, or no items list) the next request is the single-stage
\* search with primary sort 'updated' and no secondary sort for the same
\* language and label; the call resolves with that search's result, and is
\* rejected only when that search itself fails.
C9_FailureFallsBack ==
    twoStageStarted =>
        \A k \in {1, 2} :
            (/\ k <= Len(responses) /\ ~isOk(responses[k])
             /\ \A j \in 1..(k - 1) : isOk(responses[j]))
                => /\ Len(requests) = k + 1
                   /\ requests[k + 1] = singleStageRequest(updatedCall)
                   /\ pc \in {"fallback", "done", "failed"}
                   /\ pc = "done" =>
                        /\ via = "single"
                        /\ result = singleStageResult(responses[k + 1].items, updatedCall)
                   /\ pc = "failed" =>
                        (Len(responses) = k + 1 /\ ~isOk(responses[k + 1]))

\* State B answered without an items list and the call resolved through the
\* fallback search.
C9_Witness ==
    /\ pc = "done" /\ via = "single" /\ twoStageStarted
    /\ Len(responses) = 3
    /\ isOk(responses[1]) /\ responses[2].kind = "noitems"
    /\ Len(result) > 0

-----------------------------------------------------------------------------
(* Properties of the aggregation *)

Range(seq) == {seq[i] : i \in 1..Len(seq)}

\* What a repository whose fetch succeeds contributes to the result: its first
\* 20 issues, mapped, of a wanted category.
contribution(repo) ==
    LET githubIssues == slice0(PlatformRepoIssues(repo.full_name), IssuesPerRepo)
    IN  filter([i \in 1..Len(githubIssues) |-> toIssue(githubIssues[i], repo, BeginnerLabelList)],
               LAMBDA x : x.type \in userData.issueTypes)

\* C7: no fetchAllIssues call ends in an error, whichever repositories fail;
\* once a call has completed, the result is the union of the contributions of
\* the repositories whose fetch succeeded: each of them is present unaltered
\* and a failing repository contributes nothing.
C7_PartialFailureTolerated ==
    /\ \A c \in 1..Len(cycles) : cycles[c].status \in {"running", "done"}
    /\ (\E c \in 1..Len(cycles) : cycles[c].status = "done") =>
         LET repos == userData.repositories
             ok    == {k \in 1..Len(repos) : repos[k].full_name \notin failing}
         IN  /\ Range(allIssues) = UNION {Range(contribution(repos[k])) : k \in ok}
             /\ \A k \in ok :
                  filter(allIssues, LAMBDA x : x.repositoryFullName = repos[k].full_name)
                      = contribution(repos[k])
             /\ \A k \in (1..Len(repos)) \ ok :
                  \A x \in Range(allIssues) : x.repositoryFullName # repos[k].full_name

\* Five repositories, the third one failing, and a completed call with issues
\* of repositories of both batches.
C7_Witness ==
    /\ Len(userData.repositories) = 5
    /\ failing = {RepoFullNames[3]}
    /\ \E c \in 1..Len(cycles) : cycles[c].status = "done"
    /\ \E x \in Range(allIssues) : x.repositoryFullName = RepoFullNames[1]
    /\ \E x \in Range(allIssues) : x.repositoryFullName = RepoFullNames[4]

\* The batch a repository index belongs to, counted from 0.
batchIndex(j) == (j - 1) \div batchSize

\* C10: in every fetchAllIssues call at most batchSize fetches are in flight,
\* and a fetch of a batch is in flight only when every fetch of the earlier
\* batches has settled.
C10_BatchesSequential ==
    \A c \in 1..Len(cycles) :
        LET cy == cycles[c]
        IN  /\ Cardinality(cy.issued \ cy.settled) <= batchSize
            /\ \A j \in cy.issued :
                 \A m \in 1..Len(cy.repositories) :
                     batchIndex(m) < batchIndex(j) => m \in cy.settled

\* The second batch of a call over five repositories is in flight.
C10_Witness ==
    \E c \in 1..Len(cycles) :
        /\ Len(cycles[c].repositories) = 5
        /\ cycles[c].i = 4
        /\ cycles[c].issued \ cycles[c].settled = {4, 5}

-----------------------------------------------------------------------------
(* Properties of the Dashboard's life and its auto-refresh *)

\* The timer's life: at most one interval is set; one is set exactly when a
\* Dashboard is on screen and its repository list is not empty; a change of
\* that list leaves none of the earlier intervals set, and sets none when the
\* list became empty.
TimerLifecycle ==
    /\ [](Cardinality(timers) <= 1)
    /\ [](timers # {} <=> (mounted /\ Len(updatedUserData.repositories) > 0))
    /\ [][updatedUserData'.repositories # updatedUserData.repositories =>
            /\ timers' \cap timers = {}
            /\ Len(updatedUserData'.repositories) = 0 => timers' = {}]_vars

\* C11 (as claimed): the auto-refresh timer follows the monitored repository
\* set (at most one timer, active exactly when mounted with a non-empty set,
\* cancelled before a new one starts and none started for an empty set), and
\* each timer tick starts one aggregation cycle.
C11_TimerFollowsSet ==
    /\ TimerLifecycle
    /\ [][Tick => Len(cycles') = Len(cycles) + 1]_vars

\* C12: with no Dashboard on screen no interval is set and no step starts an
\* aggregation cycle (only a new Dashboard's effect does); a cycle that is
\* running goes on to completion over all its repositories whether or not its
\* Dashboard is still on screen; and a step of a cycle whose Dashboard is gone
\* changes nothing a later Dashboard reads: its issues, loading flag and
\* refresh time, the repository lists, the stored data and the credential.
C12_DismissalStopsTimerOnly ==
    /\ [](~mounted => timers = {})
    /\ [][(~mounted /\ ~mounted') => Len(cycles') = Len(cycles)]_vars
    /\ [](\A c \in 1..Len(cycles) :
            /\ cycles[c].status \in {"running", "done"}
            /\ cycles[c].status = "done" => cycles[c].settled = 1..Len(cycles[c].repositories))
    /\ []<>(\A c \in 1..Len(cycles) : cycles[c].status = "done")
    /\ [][\A c \in 1..Len(cycles) :
            (/\ Len(cycles') = Len(cycles)
             /\ cycles'[c] # cycles[c]
             /\ ~(mounted /\ cycles[c].view = view))
                => /\ UNCHANGED <<allIssues, loading, lastRefresh, userData, updatedUserData,
                                  savedUserData, storage, timers>>
                   /\ getToken' = getToken]_vars

\* The first Dashboard was dismissed while its cycle over two batches was in
\* flight; the cycle has completed since and refreshed nothing.
C12_Witness ==
    /\ ~mounted /\ view = 1
    /\ lastRefresh = 0 /\ allIssues = <<>>
    /\ \E c \in 1..Len(cycles) :
        /\ cycles[c].status = "done"
        /\ Len(cycles[c].repositories) = batchSize + 1
        /\ Len(cycles[c].allIssuesData) > 0

\* C13 (as claimed): every aggregation cycle that starts fetches exactly the
\* repositories of the monitored set as it is when the cycle starts, so none
\* that the user removed and every one the user added.
C13_CyclesFetchMonitoredSet ==
    [][Len(cycles') > Len(cycles) =>
        cycles'[Len(cycles')].repositories = updatedUserData'.repositories]_vars

-----------------------------------------------------------------------------
(* Properties of the credential and of the failure contract *)

\* C14: once logout or a failed /user validation has cleared the credential,
\* and until setToken runs again, the service's token and the stored
\* 'github_token' entry are both absent and every request sent carries no
\* Authorization header.
C14_InvalidationComplete ==
    /\ [](invalidated => (token = NULL /\ storage = NULL /\ getToken = NULL))
    /\ [][(Len(responses') > Len(responses) /\ ~responses'[Len(responses')].ok)
            => invalidated']_vars
    /\ [][(\E h \in Hooks : auth[h].isAuthenticated /\ ~auth'[h].isAuthenticated)
            => invalidated']_vars
    /\ [][(invalidated /\ invalidated' /\ Len(requests') > Len(requests))
            => requests'[Len(requests')].auth = NULL]_vars

\* A stored credential failed its validation and a request went out afterwards.
C14_Witness ==
    /\ invalidated
    /\ Len(responses) >= 1 /\ ~responses[1].ok
    /\ Len(requests) >= 2
    /\ requests[1].auth \in Tokens
    /\ requests[Len(requests)].auth = NULL

\* C15 (as claimed): for every non-success response makeRequest raises an
\* error, never returns a value, and the error's message is the platform's
\* message when the body parses as JSON with a non-empty message and
\* 'HTTP <status>' otherwise (body not JSON, or JSON without a message).
C15_FailureNormalized ==
    [][\A v \in validations \ validations' :
        (/\ v.hook \in Hooks /\ Len(responses') > Len(responses)
         /\ ~responses'[Len(responses')].ok)
        => LET resp == responses'[Len(responses')]
           IN  /\ ~auth'[v.hook].isAuthenticated
               /\ auth'[v.hook].error = IF /\ resp.body.kind = "object"
                                           /\ resp.body.message \notin {NONE, ""}
                                        THEN resp.body.message
                                        ELSE "HTTP " \o ToString(resp.status)]_vars

\* C15 (amended): for every non-success response makeRequest raises and
\* returns no value; the error's message is the body's message when the body
\* parses as JSON with a non-empty message, 'Unknown error' when the body is
\* not JSON, and 'HTTP <status>' when the body parses as JSON to a value other
\* than null that has no message or an empty one (the value null raises a
\* TypeError instead).
C15_FailureMessages ==
    [][\A v \in validations \ validations' :
        (/\ v.hook \in Hooks /\ Len(responses') > Len(responses)
         /\ ~responses'[Len(responses')].ok)
        => LET resp == responses'[Len(responses')]
               hook == auth'[v.hook]
           IN  /\ ~hook.isAuthenticated
               /\ hook.user = auth[v.hook].user
               /\ hook.error # NULL
               /\ resp.body.kind = "text" => hook.error = "Unknown error"
               /\ (resp.body.kind = "object" /\ resp.body.message \notin {NONE, ""})
                    => hook.error = resp.body.message
               /\ (resp.body.kind = "object" /\ resp.body.message \in {NONE, ""})
                    => hook.error = "HTTP " \o ToString(resp.status)]_vars

\* A 500 whose body is not JSON left 'Unknown error', and a 401 whose JSON
\* body has no message left 'HTTP 401'.
C15_Witness ==
    /\ Len(responses) = 2
    /\ responses[1].status = 500 /\ responses[1].body.kind = "text"
    /\ responses[2].status = 401 /\ responses[2].body.kind = "object"
    /\ responses[2].body.message = NONE
    /\ \E h \in Hooks : auth[h].error = "HTTP 401"

-----------------------------------------------------------------------------
(* Properties of the single-stage issue search *)

\* C16: the list the single-stage search returns holds the items of the
\* platform's response in descending order of the primary key; items with
\* equal primary key are in descending order of the secondary key when one is
\* given and differs from the primary; items that tie on every key in use keep
\* the order the platform returned them in.
C16_SingleStageOrder ==
    (pc = "done" /\ via = "single") =>
        LET items == responses[Len(responses)].items
            useSecondary == call.secondarySort # NONE /\ call.secondarySort # call.primarySort
            tied(a, b) ==
                /\ sortKey(a, call.primarySort) = sortKey(b, call.primarySort)
                /\ useSecondary => sortKey(a, call.secondarySort) = sortKey(b, call.secondarySort)
        IN  /\ Len(result) = IF Len(items) < MaxReturnedIssues THEN Len(items)
                                                               ELSE MaxReturnedIssues
            /\ \A p, q \in 1..Len(result) : p < q =>
                    /\ sortKey(result[p], call.primarySort) >= sortKey(result[q], call.primarySort)
                    /\ (useSecondary /\ sortKey(result[p], call.primarySort)
                                            = sortKey(result[q], call.primarySort))
                        => sortKey(result[p], call.secondarySort)
                                >= sortKey(result[q], call.secondarySort)
            /\ \E from \in [1..Len(result) -> 1..Len(items)] :
                    /\ \A p \in 1..Len(result) : result[p] = items[from[p]]
                    /\ \A p, q \in 1..Len(result) : p < q =>
                            /\ from[p] # from[q]
                            /\ tied(result[p], result[q]) => from[p] < from[q]

\* Primary 'stars' with secondary 'updated': two issues with equal reaction
\* counts came back in ascending updated_at order and were returned swapped.
C16_Witness ==
    /\ pc = "done" /\ via = "single"
    /\ call.primarySort = "stars" /\ call.secondarySort = "updated"
    /\ Len(result) = 2
    /\ responses[Len(responses)].items[1].id = 3
    /\ responses[Len(responses)].items[2].id = 1
    /\ result[1].id = 1 /\ result[2].id = 3

-----------------------------------------------------------------------------
(* Properties of the repository search *)

\* C17: the list searchRepositories or searchBeginnerRepos returns is in
\* descending order of the primary key, also when a secondary sort different
\* from the primary is given; the secondary key orders, descending, only
\* repositories whose primary keys are equal.
C17_RepoSearchKeepsPrimaryOrder ==
    pc = "done" =>
        \A p, q \in 1..Len(result) : p < q =>
            /\ repoSortKey(result[p], call.primarySort) >= repoSortKey(result[q], call.primarySort)
            /\ (/\ call.secondarySort \notin {NONE, call.primarySort}
                /\ repoSortKey(result[p], call.primarySort)
                        = repoSortKey(result[q], call.primarySort))
                => repoSortKey(result[p], call.secondarySort)
                        >= repoSortKey(result[q], call.secondarySort)

-----------------------------------------------------------------------------
(* Properties of the aggregation result *)

\* C18: the step that completes a fetchAllIssues call stores as the result
\* exactly the issues of a wanted category among the kept (first 20) issues of
\* the repositories whose fetch succeeded, and updates the refresh time in
\* that same step; no other step changes the result or the refresh time.
C18_ResultIsWantedFilter ==
    /\ [][(\E c \in 1..Len(cycles) :
                cycles[c].status = "running" /\ cycles'[c].status = "done")
            <=> lastRefresh' # lastRefresh]_vars
    /\ [][allIssues' # allIssues => lastRefresh' # lastRefresh]_vars
    /\ []((\E c \in 1..Len(cycles) : cycles[c].status = "done") =>
            LET repos == userData.repositories
                ok    == {k \in 1..Len(repos) : repos[k].full_name \notin failing}
                kept  == UNION { { toIssue(PlatformRepoIssues(repos[k].full_name)[i],
                                           repos[k], BeginnerLabelList) :
                                     i \in { i \in 1..IssuesPerRepo :
                                               i <= Len(PlatformRepoIssues(repos[k].full_name)) } } :
                                 k \in ok }
            IN  /\ \A x \in Range(allIssues) : x.type \in userData.issueTypes
                /\ Range(allIssues) = {x \in kept : x.type \in userData.issueTypes}
                /\ lastRefresh > 0)

\* A completed call over five repositories: issues of an unwanted category
\* were fetched and left out, wanted ones of the capped repository are in.
C18_Witness ==
    /\ Len(userData.repositories) = 5
    /\ failing = {}
    /\ \E c \in 1..Len(cycles) :
        /\ cycles[c].status = "done"
        /\ Len(cycles[c].allIssuesData) > Len(allIssues)
    /\ \E x \in Range(allIssues) : x.repositoryFullName = RepoFullNames[5]
    /\ lastRefresh = 1

\* C19: a completed result holds at most 20 issues of each monitored
\* repository, all of them among the first 20 of the list its fetch returned,
\* so at most 20 * n issues for n repositories; every issue fetch asks for the
\* list sorted by updated.
C19_TwentyPerRepository ==
    /\ \A r \in 1..Len(requests) :
            "sort" \in DOMAIN requests[r] /\ requests[r].sort = "updated"
    /\ (\E c \in 1..Len(cycles) : cycles[c].status = "done") =>
        LET repos == userData.repositories
        IN  /\ Len(allIssues) <= IssuesPerRepo * Len(repos)
            /\ \A k \in 1..Len(repos) :
                LET mine  == {p \in 1..Len(allIssues) :
                                allIssues[p].repositoryFullName = repos[k].full_name}
                    first == slice0(PlatformRepoIssues(repos[k].full_name), IssuesPerRepo)
                IN  /\ Cardinality(mine) <= IssuesPerRepo
                    /\ \A p \in mine : \E i \in 1..Len(first) : first[i].id = allIssues[p].id

\* The fifth repository holds 22 issues of a wanted category: the result has
\* its first 20 and not the 21st.
C19_Witness ==
    /\ Len(userData.repositories) = 5
    /\ \E c \in 1..Len(cycles) : cycles[c].status = "done"
    /\ Len(PlatformRepoIssues(RepoFullNames[5])) = IssuesPerRepo + 2
    /\ Cardinality({p \in 1..Len(allIssues) :
                        allIssues[p].repositoryFullName = RepoFullNames[5]}) = IssuesPerRepo
    /\ \E p \in 1..Len(allIssues) : allIssues[p].id = 500 + IssuesPerRepo
    /\ \A p \in 1..Len(allIssues) : allIssues[p].id # 500 + IssuesPerRepo + 1

-----------------------------------------------------------------------------
(* Properties of the single-stage query string *)

\* The number of places at which sub occurs in s.
countOf(s, sub) ==
    Cardinality({i \in 1..(Len(s) - Len(sub) + 1) : SubSeq(s, i, i + Len(sub) - 1) = sub})

\* C20: the query string of a single-stage search holds exactly once the base
\* predicate 'is:issue is:open', exactly one label clause (the given label's,
\* or label:"good first issue" when none is given) and exactly once the
\* filter 'comments:>=1 comments:<=10'; it holds language:<language> exactly
\* once when a language is given and no language clause otherwise.
C20_QueryClausesOnce ==
    pc \in {"single", "fallback"} =>
        LET q == requests[Len(requests)].q
            wantedLabel == IF call.label # "" THEN call.label ELSE "good first issue"
        IN  /\ countOf(q, "is:issue is:open") = 1
            /\ countOf(q, "is:issue") = 1 /\ countOf(q, "is:open") = 1
            /\ countOf(q, "label:") = 1
            /\ countOf(q, " label:\"" \o wantedLabel \o "\" ") = 1
            /\ countOf(q, " comments:>=1 comments:<=10") = 1
            /\ countOf(q, "comments:") = 2
            /\ IF call.language # ""
               THEN /\ countOf(q, "language:") = 1
                    /\ countOf(q, " language:" \o call.language \o " ") = 1
               ELSE countOf(q, "language:") = 0

\* Language 'Go' with label 'help wanted': the request's query is the four
\* clauses in a row.
C20_Witness ==
    /\ pc = "single"
    /\ call.language = "Go" /\ call.label = "help wanted"
    /\ requests[Len(requests)].q
         = "is:issue is:open label:\"help wanted\" language:Go comments:>=1 comments:<=10"

-----------------------------------------------------------------------------
(* Properties of the strategy choice and of the two-stage strategy *)

\* C21: a call of searchBeginnerIssues sends the repository-search request of
\* the two-stage strategy exactly when primarySort is 'updated' and
\* secondarySort is 'stars'; for every other combination, secondarySort
\* absent included, its only request is the single-stage issue search, and no
\* later step of any call sends a repository-search request.
C21_TwoStageOnlyForUpdatedStars ==
    /\ [][pc = "idle" =>
            /\ Len(requests') = 1
            /\ (requests'[1].path = "/search/repositories")
                 <=> (call'.primarySort = "updated" /\ call'.secondarySort = "stars")
            /\ (pc' = "stateA")
                 <=> (call'.primarySort = "updated" /\ call'.secondarySort = "stars")
            /\ ~(call'.primarySort = "updated" /\ call'.secondarySort = "stars")
                 => /\ pc' = "single"
                    /\ requests'[1] = singleStageRequest(call')]_vars
    /\ [](\A r \in 2..Len(requests) : requests[r].path # "/search/repositories")
    /\ []((Len(requests) >= 1 /\ requests[1].path # "/search/repositories")
            => (Len(requests) = 1 /\ pc \in {"single", "done", "failed"}
                /\ via \in {NONE, "single"}))

\* A call with primary 'created' and secondary 'stars' resolved through the
\* single-stage search with one request.
C21_Witness ==
    /\ pc = "done" /\ via = "single"
    /\ call.primarySort = "created" /\ call.secondarySort = "stars"
    /\ Len(requests) = 1
    /\ requests[1].path = "/search/issues"

\* The URL names the repository: its last two path segments are the full name.
namesRepository(url, fullName) ==
    \/ url = fullName
    \/ /\ Len(url) > Len(fullName)
       /\ SubSeq(url, Len(url) - Len(fullName), Len(url)) = "/" \o fullName

\* C22: the list the two-stage strategy returns holds the issues of the State
\* B response, each with the star count of the State A repository its
\* repository URL names, or 0 when the URL names none of them (an empty or
\* truncated URL included), in descending order of the hybrid score computed
\* from that star count.
C22_JoinedAndScored ==
    (pc = "done" /\ via = "hybrid") =>
        LET items == responses[Len(responses)].items
            repos == repoResponse
        IN  /\ Len(result) = Len(items)
            /\ \E from \in [1..Len(result) -> 1..Len(items)] :
                    /\ \A p, q \in 1..Len(result) : p # q => from[p] # from[q]
                    /\ \A p \in 1..Len(result) :
                        /\ result[p].id = items[from[p]].id
                        /\ result[p].repository_url = items[from[p]].repository_url
                        /\ result[p].updated_at = items[from[p]].updated_at
            /\ \A p \in 1..Len(result) :
                    LET named == {i \in 1..Len(repos) :
                                    namesRepository(result[p].repository_url, repos[i].full_name)}
                    IN  IF named = {}
                        THEN result[p].repository_stars = 0
                        ELSE \E i \in named :
                                result[p].repository_stars = repos[i].stargazers_count
            /\ \A p, q \in 1..Len(result) : p < q =>
                    calculateHybridScore(result[p], result[p].repository_stars)
                        >= calculateHybridScore(result[q], result[q].repository_stars)

\* State B returned an issue without repository URL ahead of one of
\* facebook/react: the result has the latter first with 100000 stars and the
\* former with 0.
C22_Witness ==
    /\ pc = "done" /\ via = "hybrid"
    /\ Len(result) = 2
    /\ responses[Len(responses)].items[1].id = 3
    /\ responses[Len(responses)].items[2].id = 1
    /\ result[1].id = 1 /\ result[1].repository_stars = 100000
    /\ result[2].id = 3 /\ result[2].repository_url = "" /\ result[2].repository_stars = 0

\* C23: of two issues scored at the same instant with equal star counts, the
\* one updated later has a score at least the other's; of two with equal
\* updated_at the one with more stars has a score at least the other's; and
\* every star count of at most 1, 0 included, adds nothing to the score, which
\* is then 0.6 * max(0, 100 - daysSinceUpdate).
C23_ScoreMonotone ==
    pc = "scored" =>
        /\ (call.aStars = call.bStars /\ call.a.updated_at >= call.b.updated_at)
                => result[1] >= result[2]
        /\ (call.a.updated_at = call.b.updated_at /\ call.aStars >= call.bStars)
                => result[1] >= result[2]
        /\ call.aStars <= 1
                => result[1] = 6000 * (IF Now - call.a.updated_at < 100
                                      THEN 100 - (Now - call.a.updated_at) ELSE 0)
        /\ (call.aStars <= 1 /\ call.bStars <= 1 /\ call.a.updated_at = call.b.updated_at)
                => result[1] = result[2]

\* An issue updated yesterday outscores one updated 50 days ago, both of
\* repositories without stars; and the scores are those of recency alone.
C23_Witness ==
    /\ pc = "scored"
    /\ call.a.updated_at = 199 /\ call.b.updated_at = 150
    /\ call.aStars = 0 /\ call.bStars = 0
    /\ result[1] > result[2]
    /\ result[2] = 300000

\* The first place at which sub occurs in s (0 when it does not).
indexOf(s, sub) ==
    IF countOf(s, sub) = 0 THEN 0
    ELSE CHOOSE i \in 1..(Len(s) - Len(sub) + 1) :
            /\ SubSeq(s, i, i + Len(sub) - 1) = sub
            /\ \A j \in 1..(i - 1) : SubSeq(s, j, j + Len(sub) - 1) # sub

\* C24: once State A has answered with n repositories and the State B
\* request is out, its query holds min(10, n) 'repo:' clauses, one for each of the first
\* min(10, n) repositories in the order State A returned them, joined by OR,
\* and none for a later repository.
C24_AtMostTenRepoClauses ==
    pc = "stateB" =>
        LET q == requests[2].q
            n == Len(repoResponse)
            m == IF n < 10 THEN n ELSE 10
        IN  /\ Len(requests) = 2
            /\ requests[2].path = "/search/issues"
            /\ countOf(q, "repo:") = m
            /\ countOf(q, " OR ") = IF m = 0 THEN 0 ELSE m - 1
            /\ \A i \in 1..m : indexOf(q, "repo:" \o repoResponse[i].full_name) > 0
            /\ \A i \in 1..(m - 1) :
                    indexOf(q, "repo:" \o repoResponse[i].full_name \o " OR repo:"
                                       \o repoResponse[i + 1].full_name) > 0
            /\ m > 0 => /\ indexOf(q, "(repo:" \o repoResponse[1].full_name) > 0
                        /\ indexOf(q, "repo:" \o repoResponse[m].full_name \o ")") > 0
            /\ \A i \in (m + 1)..n :
                    (\A k \in 1..m : repoResponse[k].full_name # repoResponse[i].full_name)
                        => countOf(q, repoResponse[i].full_name) = 0

\* State A returned 11 repositories: the State B query names the first ten
\* and not the eleventh.
C24_Witness ==
    /\ pc = "stateB"
    /\ Len(repoResponse) = 11
    /\ countOf(requests[2].q, "repo:") = 10
    /\ countOf(requests[2].q, "repo:" \o repoResponse[10].full_name) = 1
    /\ countOf(requests[2].q, repoResponse[11].full_name) = 0

-----------------------------------------------------------------------------
(* Properties of the sign-in flow *)

\* C26: the landing flow leaves the 'auth' step for the 'setup' step only in
\* the step in which the /user call of a submitted token succeeds; when that
\* call fails the flow stays on the 'auth' step and the credential is
\* cleared.
C26_SetupOnlyAfterValidation ==
    /\ [][(currentStep = "auth" /\ currentStep' = "setup")
            => /\ Len(responses') > Len(responses)
               /\ responses'[Len(responses')].ok
               /\ \E v \in validations \ validations' : v.submit]_vars
    /\ [][\A v \in validations \ validations' :
            (/\ v.submit /\ Len(responses') > Len(responses)
             /\ ~responses'[Len(responses')].ok)
                => (currentStep' = "auth" /\ getToken' = NULL)]_vars

\* C27: the credential is cleared only by logout or in the step in which a
\* /user request that carried that same credential fails; a failing /user
\* request sent under another credential, or under none, leaves the stored
\* and the cached credential as they are.
C27_ClearedOnlyByOwnFailure ==
    [][(getToken # NULL /\ getToken' = NULL)
        => \/ (responses' = responses /\ requests' = requests)
           \/ \E v \in validations \ validations' :
                /\ Len(responses') > Len(responses)
                /\ ~responses'[Len(responses')].ok
                /\ requests[v.request].auth = getToken]_vars

-----------------------------------------------------------------------------
(* Properties of the repository selector *)

\* The URL has a part 'github.com/<owner>/<repo>' with a non-empty owner and a
\* non-empty repo, neither holding a slash.
hasRepositoryPart(url) ==
    \E i \in 1..Len(url) : \E j \in (i + 12)..(Len(url) - 1) :
        /\ SubSeq(url, i, i + 10) = "github.com/"
        /\ SubSeq(url, j, j) = "/"
        /\ \A k \in (i + 11)..(j - 1) : SubSeq(url, k, k) # "/"
        /\ SubSeq(url, j + 1, j + 1) # "/"

\* C25: a call of handleCustomRepoAdd with a URL that has no
\* 'github.com/<owner>/<repo>' part sends no request and leaves the selected
\* repositories, the URL field, the adding flag and the credential as they
\* are.
C25_UnparseableUrlIsNoOp ==
    [][(Len(handled') > Len(handled) /\ ~hasRepositoryPart(customRepoUrl))
        => UNCHANGED <<requests, token, storage, selectedRepositories, customRepoUrl,
                       addingCustomRepo, pendingAdds>>]_vars

\* The Add button was pressed on a GitLab URL and on a GitHub URL without
\* repository: no request went out and the flag is clear.
C25_Witness ==
    /\ handled = <<"https://gitlab.com/facebook/react", "https://github.com/facebook/">>
    /\ customRepoUrl = "https://github.com/facebook/"
    /\ requests = <<>>
    /\ ~addingCustomRepo

-----------------------------------------------------------------------------
(* Properties of concurrent aggregation cycles *)

\* The fetchAllIssues calls of the Dashboard on screen that have not ended.
cyclesInFlight ==
    {c \in 1..Len(cycles) : cycles[c].view = view /\ cycles[c].status = "running"}

RECURSIVE fetchesInFlight(_)
\* The issue fetches of the calls cs that have not settled.
fetchesInFlight(cs) ==
    IF cs = {} THEN 0
    ELSE LET c == CHOOSE x \in cs : TRUE
         IN  Cardinality(cycles[c].issued \ cycles[c].settled) + fetchesInFlight(cs \ {c})

\* C28: in a mounted Dashboard at most one fetchAllIssues call is in flight,
\* at most batchSize issue fetches are in flight over all calls, and the
\* loading flag is set while a call is in flight.
C28_OneCycleInFlight ==
    mounted =>
        /\ Cardinality(cyclesInFlight) <= 1
        /\ fetchesInFlight(cyclesInFlight) <= batchSize
        /\ (cyclesInFlight # {} => loading)

\* The value of the fetch of the k-th monitored repository: nothing when it
\* fails, else its first 20 issues in the order fetched.
valueOf(k) ==
    IF userData.repositories[k].full_name \in failing
    THEN <<>>
    ELSE FetchedTable[userData.repositories[k].id]

\* The values of the first m monitored repositories, one after the other.
valuesUpTo(m) == flat([k \in 1..m |-> valueOf(k)])

\* C29: whatever the order in which the fetches of a batch settle, a value
\* is kept at the place of its repository, the issues joined so far are those
\* of the completed batches grouped by repository in the order of the
\* monitored set and in fetch order within a repository, and a completed call
\* stores that sequence of all repositories, filtered by the wanted types.
C29_OrderIndependent ==
    /\ \A c \in 1..Len(cycles) :
        LET cy == cycles[c]
        IN  /\ cy.status = "running" =>
                /\ cy.allIssuesData = valuesUpTo(cy.i - 1)
                /\ \A j \in cy.settled :
                     j >= cy.i => cy.batchResults[j] = valueOf(j)
            /\ cy.status = "done" =>
                cy.allIssuesData = valuesUpTo(Len(userData.repositories))
    /\ (\E c \in 1..Len(cycles) : cycles[c].status = "done") =>
         allIssues = filter(valuesUpTo(Len(userData.repositories)),
                            LAMBDA x : x.type \in userData.issueTypes)

\* In the second batch of a call over five repositories the fetch of the
\* fifth has settled before the fetch of the fourth: its issues wait at the
\* fifth place, and the issues joined so far are those of the first batch,
\* the first repository's before the second's.
C29_Witness ==
    \E c \in 1..Len(cycles) :
        /\ Len(cycles[c].repositories) = 5 /\ failing = {}
        /\ cycles[c].status = "running" /\ cycles[c].i = 4
        /\ cycles[c].settled = {1, 2, 3, 5}
        /\ cycles[c].batchResults[5] # <<>> /\ cycles[c].batchResults[4] = <<>>
        /\ \E a, b \in 1..Len(cycles[c].allIssuesData) :
            /\ a < b
            /\ cycles[c].allIssuesData[a].repositoryFullName = RepoFullNames[1]
            /\ cycles[c].allIssuesData[b].repositoryFullName = RepoFullNames[2]

-----------------------------------------------------------------------------
(* Termination of the search *)

\* C30: when every request settles, a call of searchBeginnerIssues ends,
\* resolved or rejected; it sends at most 3 requests, and only 1 when it did
\* not start with the two-stage strategy; the two-stage strategy is entered
\* by the caller's call only, never by the fallback; and a failure of the
\* fallback request rejects the call.
C30_TerminatesWithinThree ==
    /\ [](Len(requests) <= 3)
    /\ []((Len(requests) >= 1 /\ ~twoStageStarted) => Len(requests) = 1)
    /\ [][pc' = "stateA" => pc = "idle"]_vars
    /\ [][(pc = "fallback" /\ Len(responses') > Len(responses)
            /\ ~isOk(responses'[Len(responses')]))
                => (pc' = "failed" /\ requests' = requests)]_vars
    /\ (pc # "idle") ~> (pc \in {"done", "failed"})

\* State A succeeded, State B failed and so did the fallback: the call was
\* rejected after three requests, the last one the single-stage search.
C30_Witness ==
    /\ pc = "failed" /\ twoStageStarted
    /\ Len(requests) = 3 /\ Len(responses) = 3
    /\ isOk(responses[1]) /\ ~isOk(responses[2]) /\ ~isOk(responses[3])
    /\ requests[2].path = "/search/issues" /\ requests[3].path = "/search/issues"

====
